---- MODULE Spec2Model ----
(***************************************************************************)
(* Model of the BotRoulette tunnel client (generic-template/tunnel.js) and *)
(* of the mailbox bridge (the server in README.md and the worker in        *)
(* openclaw-template/bridge.js).                                           *)
(*                                                                         *)
(* The client is a single-threaded Node.js program: every action below is  *)
(* one callback run to completion by the event loop.  `ws` is a module     *)
(* level variable that connect() reassigns, so callbacks of the local HTTP *)
(* calls and of the heartbeat read whatever socket `ws` names when they    *)
(* run.  Time is counted in milliseconds and advances in steps of 12500.   *)
(*                                                                         *)
(* The mailbox server and the worker are two processes; their steps are    *)
(* the file system calls they make on inbox/ and outbox/, interleaved in   *)
(* any order.  Spec runs the tunnel client, MailSpec the mailbox bridge.   *)
(*                                                                         *)
(* ConcSpec keeps one session open and lets several local calls overlap.   *)
(* FwdSpec applies handleRequest's construction of the local call to every *)
(* request frame of a small set.  ServerSpec and LimitSpec run handleChat  *)
(* and /health of the three server templates, the second with a clock for  *)
(* the rate limiter.  ChainSpec puts the mailbox server behind the tunnel  *)
(* client on one clock in milliseconds, in which timers fire when due.     *)
(* BackendSpec follows the promise handleChat awaits through the events of *)
(* the backend call.  GateSpec is one session on which the relay's         *)
(* 'auth_ok' may arrive at any time.                                       *)
(***************************************************************************)
EXTENDS Integers, Sequences, FiniteSets, TLC

\* ---------------------------------------------------------------- bounds
MaxSess == 6          \* connect() calls explored
MaxOpen == 2          \* connections the relay accepts
MaxReq  == 2          \* request frames in flight on one session (ConcSpec)
MaxLone == 1          \* request frames explored across reconnects (Spec)
MaxPing == 1          \* heartbeat ticks explored
MaxMail == 2          \* chat requests the mailbox server accepts
MaxClock == 60000     \* how far the responder's clock runs, in ms
MaxOther == 1         \* chat requests of the second caller
MaxLatency == 1       \* ms a message takes between tunnel client and server
MaxCalls == 2         \* chat requests that reach the backend call

\* ------------------------------------------------------ program constants
InitialDelay    == 1000
MaxDelay        == 30000
RequestTimeout  == 25000
RelayTimeout    == 30000
BadGateway      == 502
GatewayTimeout  == 504
Window          == 60000
MaxHits         == 30
TooManyRequests == 429
BadRequest      == 400
MaxMessage      == 5000
PollInterval    == 500
PollDeadline    == 25000

API_KEY == "k1"

Sessions == 1..MaxSess
Requests == 1..MaxReq
\* Chat requests in order of arrival; k stands for the k-th generated id
\* (Date.now().toString(36) + four random characters, taken to be unique).
Mail == 1..MaxMail
\* The relay numbers its request frames: the k-th one carries RequestId(k).
RequestId(k) == CASE k = 1 -> "r1" [] k = 2 -> "r2" [] k = 3 -> "r3" [] OTHER -> "r4"

\* ------------------------------------------------------------ pure helpers
Min(a, b) == IF a < b THEN a ELSE b

\* String.prototype.toLowerCase on the header names the model uses.
ToLowerCase(k) ==
  CASE k = "Content-Length" -> "content-length"
    [] k = "ETag"           -> "etag"
    [] k = "X-Powered-By"   -> "x-powered-by"
    [] k = "X-Bot"          -> "x-bot"
    [] OTHER                -> k

\* const skip = new Set([...])
skip == {"content-length", "transfer-encoding", "connection",
         "keep-alive", "etag", "x-powered-by"}

\* res.headers is a set of entries <<name, typeof value, value>>.
HeaderEntries ==
  { <<"content-type", "string", "application/json">>,
    <<"content-length", "string", "17">>,
    <<"etag", "string", "W/11">>,
    <<"set-cookie", "object", "a=1">> }

\* Names as a server writes them, should they reach the filter unchanged.
MixedCaseEntries ==
  { <<"X-Bot", "string", "yes">>,
    <<"Content-Length", "string", "24">>,
    <<"X-Powered-By", "string", "Express">> }

\* What the local server may answer: status, res.headers, body.
LocalReplies ==
  { [status |-> 200, headers |-> HeaderEntries, body |-> "{\"reply\":\"hello\"}"],
    [status |-> 429, headers |-> MixedCaseEntries,
     body |-> "{\"error\":\"rate limited\"}"] }

\* Mutant: the skip list is consulted with the name as written.
KeepsHeader_CaseSensitive(e) == e[2] = "string" /\ e[1] \notin skip

KeepsHeader(e) == e[2] = "string" /\ ToLowerCase(e[1]) \notin skip

\* Mutant: every string-valued header is forwarded.
respHeaders_NoFilter(h) == { <<e[1], e[3]>> : e \in { x \in h : x[2] = "string" } }

\* for (const [k, v] of Object.entries(res.headers)) ... respHeaders[k] = v
respHeaders(h) == { <<e[1], e[3]>> : e \in { x \in h : KeepsHeader(x) } }

JsonHeaders == { <<"content-type", "application/json">> }

AuthFrame == [type |-> "auth", api_key |-> API_KEY]
PingFrame == [type |-> "ping"]
ResponseFrame(id, status, headers, body) ==
  [type |-> "response", id |-> id, status |-> status,
   headers |-> headers, body |-> body]

\* Mutant: the error path reports a generic 500.
UnreachableFrame_500(id) ==
  ResponseFrame(id, 500, JsonHeaders, "{\"error\":\"local server unreachable\"}")

UnreachableFrame(id) ==
  ResponseFrame(id, BadGateway, JsonHeaders, "{\"error\":\"local server unreachable\"}")

\* Mutant: the timeout answer is not tied to the request.
TimeoutFrame_NoId(id) ==
  ResponseFrame("r0", GatewayTimeout, JsonHeaders, "{\"error\":\"timeout\"}")

TimeoutFrame(id) ==
  ResponseFrame(id, GatewayTimeout, JsonHeaders, "{\"error\":\"timeout\"}")


\* ------------------------------------------------- request forwarding
\* JavaScript values as they occur in a parsed request frame: t is the
\* typeof/null tag, v the text of a string or a name for another value.
Undefined == [t |-> "undefined", v |-> ""]
Null      == [t |-> "null", v |-> ""]
Str(v)    == [t |-> "string", v |-> v]
Num(v)    == [t |-> "number", v |-> v]
Bool(v)   == [t |-> "boolean", v |-> v]
Obj(v)    == [t |-> "object", v |-> v]

\* JSON.stringify on the values the model uses.
JSONstringify(x) ==
  CASE x = Obj("{message:'hi'}")  -> "{\"message\":\"hi\"}"
    [] x = Obj("[1,2]")           -> "[1,2]"
    [] x = Num("0")               -> "0"
    [] x = Bool("false")          -> "false"
    [] x = Str("hi")              -> "\"hi\""
    [] x = Str("caf\\u00e9")      -> "\"caf\\u00e9\""
    [] x = Str("")                -> "\"\""
    [] x = Null                   -> "null"

\* Buffer.byteLength (UTF-8) of the strings the model uses.
byteLength(str) ==
  CASE str = "hi"                      -> 2
    [] str = "caf\\u00e9"              -> 5
    [] str = "{\"message\":\"hi\"}"    -> 16
    [] str = "[1,2]"                   -> 5
    [] str = "0"                       -> 1
    [] str = "false"                   -> 5
    [] str = "\"hi\""                  -> 4
    [] str = "\"caf\\u00e9\""          -> 7
    [] str = "\"\""                    -> 2
    [] str = "null"                    -> 4
    [] OTHER                           -> 0

\* x || dflt for x undefined or a string.
OrElse(x, dflt) == IF x.t = "string" /\ x.v # "" THEN x.v ELSE dflt

\* Mutant: the body is always serialised.
bodyStr_AlwaysStringify(body) ==
  IF body.t \in {"undefined", "null"} THEN "" ELSE JSONstringify(body)

\* (body == null) ? '' : (typeof body === 'string') ? body : JSON.stringify(body)
bodyStr(body) ==
  IF body.t \in {"undefined", "null"} THEN ""
  ELSE IF body.t = "string" THEN body.v
  ELSE JSONstringify(body)

LOCAL_PORT == 8900

\* fwdHeaders: Content-Type always, Content-Length when there is a body
\* (-1 stands for the header not being set).
fwdHeaders(str) ==
  [ContentType |-> "application/json",
   ContentLength |-> IF str # "" THEN byteLength(str) ELSE -1]

\* http.request(options) followed by req.write(bodyStr) when bodyStr is not
\* empty, and req.end().
LocalCall(m) ==
  [hostname |-> "127.0.0.1", port |-> LOCAL_PORT,
   path |-> OrElse(m.path, "/"), method |-> OrElse(m.method, "POST"),
   headers |-> fwdHeaders(bodyStr(m.body)),
   written |-> bodyStr(m.body)]

Methods == {Undefined, Str(""), Str("GET"), Str("POST")}
Paths   == {Undefined, Str(""), Str("/"), Str("/api/chat")}
Bodies  == {Undefined, Null, Str(""), Str("hi"), Str("caf\\u00e9"),
            Obj("{message:'hi'}"), Obj("[1,2]"), Num("0"), Bool("false")}
\* Whether the frame carries headers of the remote caller.
FrameHeaders == {Undefined, Obj("{x-secret:'1'}")}

Frames ==
  { [type |-> "request", id |-> "r1", method |-> m, path |-> p, body |-> b,
     headers |-> h] : m \in Methods, p \in Paths, b \in Bodies, h \in FrameHeaders }

NoFrame == [type |-> "none", id |-> "", method |-> Undefined, path |-> Undefined,
            body |-> Undefined, headers |-> Undefined]
NoCall  == [hostname |-> "", port |-> 0, path |-> "", method |-> "",
            headers |-> [ContentType |-> "", ContentLength |-> -1],
            written |-> ""]

\* ---------------------------------------------------------- responders
Templates == {"generic", "httpapi", "mailbox"}
IPs == {"a", "b"}

\* The `message` field of the posted body (Undefined also stands for a
\* request without a body) and String.prototype.length of the strings used.
Messages == {Undefined, Num("7"), Str(""), Str("hi"), Str("x*5000"), Str("x*5001")}
Length(v) ==
  CASE v = "" -> 0 [] v = "hi" -> 2 [] v = "x*5000" -> 5000 [] v = "x*5001" -> 5001

\* How the backend of a template can end: the OpenAI call, the OpenClaw
\* HTTP call, the wait for the mailbox worker.
Outcomes(t) ==
  CASE t = "generic" -> {"content", "throw"}
    [] t = "httpapi" -> {"content", "empty", "reject"}
    [] t = "mailbox" -> {"reply", "fallback"}
    [] OTHER         -> {}

\* hits[ip].filter(t => now - t < 60000) for a clock value n
Recent(q, n) == SelectSeq(q, LAMBDA t : n - t < Window)

\* Mutant: one counter for all callers.
rateLimit_Shared(h, ip, n) ==
  \E other \in IPs : Len(Recent(h[other], n)) >= MaxHits

\* rateLimit(ip): TRUE when the request is refused.
rateLimit(h, ip, n) == Len(Recent(h[ip], n)) >= MaxHits

\* hits after rateLimit(ip) has run.
\* Mutant: the time of a refused call is recorded as well.
Counted_Refused(h, ip, n) == [h EXCEPT ![ip] = Append(Recent(h[ip], n), n)]

Counted(h, ip, n) ==
  [h EXCEPT ![ip] = IF rateLimit(h, ip, n) THEN Recent(h[ip], n)
                    ELSE Append(Recent(h[ip], n), n)]

\* Mutant: the length of the message is not looked at.
Validate_AnyLength(t, m) ==
  IF m.t # "string" \/ m.v = "" THEN "invalid" ELSE "ok"

\* The checks on `message`: !message || typeof message !== 'string', then
\* message.length > 5000 (the OpenClaw HTTP template has only the first).
Validate(t, m) ==
  IF m.t # "string" \/ m.v = "" THEN "invalid"
  ELSE IF t # "httpapi" /\ Length(m.v) > MaxMessage THEN "toolong"
  ELSE "ok"

\* Mutant: the response is ended without a Content-Type.
EndJson_Untyped(status, body) ==
  [status |-> status, ctype |-> "", body |-> body, ends |-> 1]

\* res.setHeader('Content-Type', 'application/json');
\* res.status(status).end(JSON.stringify(obj)), body being the JSON text.
EndJson(status, body) ==
  [status |-> status, ctype |-> "application/json", body |-> body, ends |-> 1]

\* The response of handleChat for a request that passed rateLimit.
Answer(t, m, o) ==
  CASE Validate(t, m) = "invalid" ->
         EndJson(BadRequest, IF t = "httpapi" THEN "{\"error\":\"missing message\"}"
                             ELSE "{\"error\":\"missing or invalid message field\"}")
    [] Validate(t, m) = "toolong" ->
         EndJson(BadRequest, "{\"error\":\"message too long\"}")
    [] OTHER ->
         CASE t = "generic" /\ o = "content" -> EndJson(200, "{\"reply\":\"hello\"}")
           [] t = "generic" /\ o = "throw" ->
                EndJson(200, "{\"reply\":\"something went wrong, try again\"}")
           [] t = "httpapi" /\ o = "content" -> EndJson(200, "{\"response\":\"hello\"}")
           [] t = "httpapi" /\ o = "empty" ->
                EndJson(200, "{\"response\":\"no response from LLM\"}")
           [] t = "httpapi" /\ o = "reject" ->
                EndJson(200, "{\"response\":\"brain glitch. try again.\"}")
           [] t = "mailbox" /\ o = "reply" -> EndJson(200, "{\"response\":\"agent says\"}")
           [] t = "mailbox" /\ o = "fallback" ->
                EndJson(200, "{\"response\":\"still thinking on that one. try again in a moment.\"}")

NoHttp == [path |-> "none", ip |-> "", message |-> Undefined, res |-> EndJson(0, ""),
           llm |-> FALSE, inboxed |-> FALSE]

\* ------------------------------------------------------------------ state
VARIABLES
  socks,          \* readyState of every WebSocket object created so far
  ws,             \* the module-level `ws`: index of the newest socket
  pingInterval,   \* the module-level timer handle (0 = undefined)
  intervals,      \* interval timers that are still active
  reconnectDelay, \* the module-level backoff counter
  timers,         \* pending setTimeout(connect, d): the sequence of d
  reqs,           \* one record per handleRequest() call
  sent,           \* every frame handed to ws.send(), in order
  npings,         \* heartbeat ticks fired so far
  ev              \* the callback that ran last

\* The mailbox bridge: the HTTP server's handleChat (README.md) and the
\* worker's processInbox (openclaw-template/bridge.js) are two processes
\* that share the directories inbox/ and outbox/.
VARIABLES
  inbox,          \* inbox/<id>.json for every id: absent, partial or full
  outbox,         \* outbox/<id>.json for every id, with the reply it holds
  fwd,            \* one handleChat() call per id: where it is, what it sent
  wk,             \* the worker: where its processInbox() pass is
  hist            \* per id, what has been done to its two files, in order

mvars == <<inbox, outbox, fwd, wk, hist>>

\* The local HTTP call that handleRequest issues for a request frame.
VARIABLES
  msg,            \* the request frame handed to handleRequest
  call            \* the http.request it made: options, headers, written body

fvars == <<msg, call>>

\* The responder: one of the three server templates, with its rate limiter.
VARIABLES
  tpl,            \* the template that is running ("none" before app.listen)
  now,            \* Date.now() of the server process, in ms
  hits,           \* the module-level `hits`: per caller ip, the kept times
  acc,            \* per caller ip, every time a request passed rateLimit
  http            \* the last request handled and the response it got

rvars == <<tpl, now, hits, acc, http>>

\* The mailbox server behind the tunnel client, on one clock: the local call
\* of request 1 is a chat request for the mailbox server's handleChat.
VARIABLES
  clk,            \* ms since handleRequest issued the local call
  chat,           \* that handleChat() call: its deadline, its next poll, its reply
  box             \* outbox/<id>.json of that call, as the worker leaves it

cvars == <<clk, chat, box>>

\* The backend call of handleChat: the OpenAI SDK call of the generic server
\* and callOpenClaw of the HTTP-API server, one per chat request.
VARIABLES
  job,            \* per request, where handleChat is: none, awaiting, answered
  prom,           \* per request, the promise handleChat awaits
  creq,           \* per request, the state of the backend call behind it
  wrote           \* per request, every response handleChat ended, in order

bvars == <<job, prom, creq, wrote>>

\* The relay's side of the sessions.
VARIABLES
  authed          \* the sockets on which the relay has sent 'auth_ok'

gvars == <<authed>>

\* What lies outside the tunnel client's sockets and the mailbox.
xvars == <<fvars, rvars, cvars, bvars, gvars>>

\* The tunnel client's own state.
tvars == <<socks, ws, pingInterval, intervals, reconnectDelay, timers,
           reqs, sent, npings>>

vars == <<socks, ws, pingInterval, intervals, reconnectDelay, timers,
          reqs, sent, npings, ev, mvars, xvars>>

\* ------------------------------------------------------- mailbox values
\* A reply text; `of` is the id of the message the agent answered (0 for the
\* fixed texts).
AgentReply(k) == [text |-> "agent says", of |-> k]
Sideways      == [text |-> "something went sideways. try again.", of |-> 0]
Glitch        == [text |-> "brain glitched. try again.", of |-> 0]
Fallback      == [text |-> "still thinking on that one. try again in a moment.", of |-> 0]
NoReply       == [text |-> "", of |-> 0]

\* A file that does not exist; a file being written by writeFileSync is
\* "partial" (created, content not yet there) and then "full".
NoFile == [st |-> "absent", id |-> 0]
NoOut  == [st |-> "absent", reply |-> NoReply]

NoFwd == [pc |-> "idle", polled |-> FALSE, resp |-> NoReply]
Idle  == [pc |-> "idle", files |-> {}, snap |-> {}, cur |-> 0, id |-> 0,
          reply |-> NoReply]

Did(op, reply) == [op |-> op, reply |-> reply]
Ops(h) == { h[i].op : i \in 1..Len(h) }

Calls == 1..MaxCalls
NoProm == [st |-> "none", val |-> "", calls |-> <<>>]

NoChat == [pc |-> "none", deadline |-> 0, wake |-> 0, at |-> 0, body |-> "",
           replies |-> 0]
NoBox  == [st |-> "absent", written |-> FALSE]

NoRes == [status |-> 0, headers |-> {}, body |-> ""]
NoReq == [st |-> "none", id |-> "", sess |-> 0, age |-> 0, idle |-> 0]

Event(op, typ) == [op |-> op, typ |-> typ]

\* ws.send(JSON.stringify(frame)) on the socket `ws` names.  The log entry
\* also notes r, the request the frame answers (0 for auth and ping), and res,
\* the local reply the frame was built from (NoRes when there is none).
Send(log, r, res, frame) ==
  Append(log, [on |-> ws, rq |-> r, res |-> res, frame |-> frame])

\* Mutant: the frame is handed to ws.send() without looking at readyState.
SendIfOpen_Unguarded(log, r, res, frame) == Send(log, r, res, frame)

\* if (ws.readyState === WebSocket.OPEN) ws.send(...)
SendIfOpen(log, r, res, frame) ==
  IF socks[ws] = "OPEN" THEN Send(log, r, res, frame) ELSE log

NumOpened == Cardinality({i \in 1..Len(sent) : sent[i].frame.type = "auth"})
NumSocks == Cardinality({s \in Sessions : socks[s] # "NONE"})
NumReqs  == Cardinality({r \in Requests : reqs[r].st # "none"})
InFlight(r) == reqs[r].st \in {"waiting", "receiving"}
\* req.destroy() has run and its 'socket hang up' error is not delivered yet;
\* it is delivered before any timer fires.
PendingHangup == \E r \in Requests : reqs[r].st = "destroyed"

\* ---------------------------------------------------------------- Init
\* The module body ends with connect(): one socket, still connecting.
Init ==
  /\ socks = [s \in Sessions |-> IF s = 1 THEN "CONNECTING" ELSE "NONE"]
  /\ ws = 1
  /\ pingInterval = 0
  /\ intervals = {}
  /\ reconnectDelay = InitialDelay
  /\ timers = <<>>
  /\ reqs = [r \in Requests |-> NoReq]
  /\ sent = <<>>
  /\ npings = 0
  /\ ev = Event("start", "")
  /\ inbox = [k \in Mail |-> NoFile]
  /\ outbox = [k \in Mail |-> NoOut]
  /\ fwd = [k \in Mail |-> NoFwd]
  /\ wk = Idle
  /\ hist = [k \in Mail |-> <<>>]
  /\ msg = NoFrame
  /\ call = NoCall
  /\ tpl = "none"
  /\ now = 0
  /\ hits = [ip \in IPs |-> <<>>]
  /\ acc = [ip \in IPs |-> <<>>]
  /\ http = NoHttp
  /\ clk = 0
  /\ chat = NoChat
  /\ box = NoBox
  /\ job = [c \in Calls |-> "none"]
  /\ prom = [c \in Calls |-> NoProm]
  /\ creq = [c \in Calls |-> "none"]
  /\ wrote = [c \in Calls |-> <<>>]
  /\ authed = {}

\* ------------------------------------------------------------- connect()
RemoveAt(q, i) == [j \in 1..(Len(q) - 1) |-> IF j < i THEN q[j] ELSE q[j + 1]]

\* A pending setTimeout(connect, d) fires: ws = new WebSocket(TUNNEL_WS).
\* Mutant: the reconnect timer repeats instead of firing once.
Connect_Repeats(i) ==
  /\ i \in 1..Len(timers)
  /\ ~PendingHangup
  /\ NumSocks < MaxSess
  /\ ws' = NumSocks + 1
  /\ socks' = [socks EXCEPT ![NumSocks + 1] = "CONNECTING"]
  /\ ev' = Event("connect", "")
  /\ UNCHANGED <<timers, pingInterval, intervals, reconnectDelay, reqs, sent, npings,
                 mvars, xvars>>

Connect(i) ==
  /\ i \in 1..Len(timers)
  /\ ~PendingHangup
  /\ NumSocks < MaxSess
  /\ timers' = RemoveAt(timers, i)
  /\ ws' = NumSocks + 1
  /\ socks' = [socks EXCEPT ![NumSocks + 1] = "CONNECTING"]
  /\ ev' = Event("connect", "")
  /\ UNCHANGED <<pingInterval, intervals, reconnectDelay, reqs, sent, npings, mvars, xvars>>

\* Mutant: the open handler forgets to reset the backoff counter.
OnOpen_NoReset(s) ==
  /\ socks[s] = "CONNECTING"
  /\ NumOpened < MaxOpen
  /\ socks' = [socks EXCEPT ![s] = "OPEN"]
  /\ sent' = Send(sent, 0, NoRes, AuthFrame)
  /\ pingInterval' = s
  /\ intervals' = intervals \cup {s}
  /\ ev' = Event("open", "")
  /\ UNCHANGED <<ws, timers, reqs, npings, reconnectDelay, mvars, xvars>>

\* Mutant: the open handler starts the heartbeat but never authenticates.
OnOpen_NoAuth(s) ==
  /\ socks[s] = "CONNECTING"
  /\ socks' = [socks EXCEPT ![s] = "OPEN"]
  /\ reconnectDelay' = InitialDelay
  /\ pingInterval' = s
  /\ intervals' = intervals \cup {s}
  /\ ev' = Event("open", "")
  /\ UNCHANGED <<ws, timers, reqs, npings, sent, mvars, xvars>>

\* ws.on('open', ...) of socket s.
OnOpen(s) ==
  /\ socks[s] = "CONNECTING"
  /\ NumOpened < MaxOpen
  /\ socks' = [socks EXCEPT ![s] = "OPEN"]
  /\ sent' = Send(sent, 0, NoRes, AuthFrame)
  /\ reconnectDelay' = InitialDelay
  /\ pingInterval' = s
  /\ intervals' = intervals \cup {s}
  /\ ev' = Event("open", "")
  /\ UNCHANGED <<ws, timers, reqs, npings, mvars, xvars>>

\* The setInterval callback of the timer created by session t.
Heartbeat(t) ==
  /\ t \in intervals
  /\ ~PendingHangup
  /\ npings < MaxPing
  /\ npings' = npings + 1
  /\ sent' = SendIfOpen(sent, 0, NoRes, PingFrame)
  /\ ev' = Event("ping", "")
  /\ UNCHANGED <<socks, ws, pingInterval, intervals, reconnectDelay, timers, reqs, mvars, xvars>>

\* Mutant: a request frame waits until no local call is outstanding.
handleRequest_OneAtATime(s) ==
  /\ NumReqs < MaxReq
  /\ \A r \in Requests : ~InFlight(r)
  /\ reqs' = [reqs EXCEPT ![NumReqs + 1] =
                [st |-> "waiting", id |-> RequestId(NumReqs + 1), sess |-> s,
                 age |-> 0, idle |-> 0]]
  /\ ev' = Event("message", "request")

\* handleRequest(msg): the local HTTP call is issued, its callbacks run later.
handleRequest(s) ==
  /\ NumReqs < MaxReq
  /\ reqs' = [reqs EXCEPT ![NumReqs + 1] =
                [st |-> "waiting", id |-> RequestId(NumReqs + 1), sess |-> s,
                 age |-> 0, idle |-> 0]]
  /\ ev' = Event("message", "request")

MsgTypes == {"garbage", "auth_ok", "error", "unknown", "request"}

\* Mutant: an 'error' frame makes the client schedule a reconnect itself.
OnMessage_ErrorReconnects(s, typ) ==
  /\ socks[s] = "OPEN"
  /\ IF typ = "request"
       THEN handleRequest(s) /\ UNCHANGED timers
       ELSE /\ ev' = Event("message", typ)
            /\ timers' = IF typ = "error" THEN Append(timers, reconnectDelay) ELSE timers
            /\ UNCHANGED reqs
  /\ UNCHANGED <<socks, ws, pingInterval, intervals, reconnectDelay, sent, npings, mvars, xvars>>

\* ws.on('message', ...) of socket s, for a frame of kind typ.
OnMessage(s, typ) ==
  /\ socks[s] = "OPEN"
  /\ IF typ = "request"
       THEN handleRequest(s)
       ELSE /\ ev' = Event("message", typ)
            /\ UNCHANGED reqs
  /\ UNCHANGED <<socks, ws, pingInterval, intervals, reconnectDelay, timers,
                 sent, npings, mvars, xvars>>

\* The relay sends a frame of kind typ on socket s.
Receive(s, typ) ==
  /\ typ = "request" => NumReqs < MaxLone
  /\ OnMessage(s, typ)

\* Mutant: the error handler backs off as well.
OnError_BacksOff(s) ==
  /\ socks[s] \in {"CONNECTING", "OPEN"}
  /\ socks' = [socks EXCEPT ![s] = "CLOSING"]
  /\ reconnectDelay' = Min(reconnectDelay * 2, MaxDelay)
  /\ ev' = Event("error", "")
  /\ UNCHANGED <<ws, pingInterval, intervals, timers, reqs, sent, npings, mvars, xvars>>

\* ws.on('error', ...): the handler only logs; the socket is on its way down.
OnError(s) ==
  /\ socks[s] \in {"CONNECTING", "OPEN"}
  /\ socks' = [socks EXCEPT ![s] = "CLOSING"]
  /\ ev' = Event("error", "")
  /\ UNCHANGED <<ws, pingInterval, intervals, reconnectDelay, timers, reqs,
                 sent, npings, mvars, xvars>>

\* The relay's close frame arrives: readyState leaves OPEN before 'close'.
PeerClose(s) ==
  /\ socks[s] = "OPEN"
  /\ socks' = [socks EXCEPT ![s] = "CLOSING"]
  /\ ev' = Event("closing", "")
  /\ UNCHANGED <<ws, pingInterval, intervals, reconnectDelay, timers, reqs,
                 sent, npings, mvars, xvars>>

\* Mutant: the delay doubles without the ceiling.
OnClose_NoCeiling(s) ==
  /\ socks[s] = "CLOSING"
  /\ socks' = [socks EXCEPT ![s] = "CLOSED"]
  /\ intervals' = intervals \ {pingInterval}
  /\ timers' = Append(timers, reconnectDelay)
  /\ reconnectDelay' = reconnectDelay * 2
  /\ ev' = Event("close", "")
  /\ UNCHANGED <<ws, pingInterval, reqs, sent, npings, mvars, xvars>>

\* Mutant: the close handler leaves the heartbeat timer running.
OnClose_NoClear(s) ==
  /\ socks[s] = "CLOSING"
  /\ socks' = [socks EXCEPT ![s] = "CLOSED"]
  /\ timers' = Append(timers, reconnectDelay)
  /\ reconnectDelay' = Min(reconnectDelay * 2, MaxDelay)
  /\ ev' = Event("close", "")
  /\ UNCHANGED <<ws, pingInterval, intervals, reqs, sent, npings, mvars, xvars>>

\* Mutant: once the delay has reached the ceiling the client gives up.
OnClose_GivesUp(s) ==
  /\ socks[s] = "CLOSING"
  /\ socks' = [socks EXCEPT ![s] = "CLOSED"]
  /\ intervals' = intervals \ {pingInterval}
  /\ timers' = IF reconnectDelay < MaxDelay THEN Append(timers, reconnectDelay) ELSE timers
  /\ reconnectDelay' = Min(reconnectDelay * 2, MaxDelay)
  /\ ev' = Event("close", "")
  /\ UNCHANGED <<ws, pingInterval, reqs, sent, npings, mvars, xvars>>

\* Mutant: the close handler also gives up the local calls of its session.
OnClose_AbortsCalls(s) ==
  /\ socks[s] = "CLOSING"
  /\ socks' = [socks EXCEPT ![s] = "CLOSED"]
  /\ intervals' = intervals \ {pingInterval}
  /\ timers' = Append(timers, reconnectDelay)
  /\ reconnectDelay' = Min(reconnectDelay * 2, MaxDelay)
  /\ reqs' = [r \in Requests |->
                IF InFlight(r) /\ reqs[r].sess = s
                  THEN [reqs[r] EXCEPT !.st = "done", !.age = 0, !.idle = 0]
                ELSE reqs[r]]
  /\ ev' = Event("close", "")
  /\ UNCHANGED <<ws, pingInterval, sent, npings, mvars, xvars>>

\* ws.on('close', ...) of socket s.
OnClose(s) ==
  /\ socks[s] = "CLOSING"
  /\ socks' = [socks EXCEPT ![s] = "CLOSED"]
  /\ intervals' = intervals \ {pingInterval}
  /\ timers' = Append(timers, reconnectDelay)
  /\ reconnectDelay' = Min(reconnectDelay * 2, MaxDelay)
  /\ ev' = Event("close", "")
  /\ UNCHANGED <<ws, pingInterval, reqs, sent, npings, mvars, xvars>>

\* ----------------------------------------------------- the local HTTP call
\* The call's socket is gone: its clocks stop mattering.
Settled(q, st) == [q EXCEPT !.st = st, !.age = 0, !.idle = 0]

\* Half the request timeout: the granularity of the clock.
TimeStep == RequestTimeout \div 2

\* The http.request callback: status line and headers have arrived.
LocalResponse(r) ==
  /\ reqs[r].st = "waiting"
  /\ reqs' = [reqs EXCEPT ![r].st = "receiving", ![r].idle = 0]
  /\ ev' = Event("response", "")
  /\ UNCHANGED <<socks, ws, pingInterval, intervals, reconnectDelay, timers,
                 sent, npings, mvars, xvars>>

\* res.on('end', ...)
LocalEnd(r, res) ==
  /\ reqs[r].st = "receiving"
  /\ reqs' = [reqs EXCEPT ![r] = Settled(reqs[r], "done")]
  /\ sent' = SendIfOpen(sent, r, res,
                        ResponseFrame(reqs[r].id, res.status,
                                      respHeaders(res.headers), res.body))
  /\ ev' = Event("end", "")
  /\ UNCHANGED <<socks, ws, pingInterval, intervals, reconnectDelay, timers, npings, mvars, xvars>>

\* req.on('error', ...) with e = "fail": connection refused or reset while
\* the call is running; with e = "hangup": the 'socket hang up' error that
\* req.destroy() emits when no response has arrived yet.
LocalError(r, e) ==
  /\ \/ e = "fail"   /\ InFlight(r)
     \/ e = "hangup" /\ reqs[r].st = "destroyed"
  /\ reqs' = [reqs EXCEPT ![r] = Settled(reqs[r], "done")]
  /\ sent' = SendIfOpen(sent, r, NoRes, UnreachableFrame(reqs[r].id))
  /\ ev' = Event("reqerror", e)
  /\ UNCHANGED <<socks, ws, pingInterval, intervals, reconnectDelay, timers, npings, mvars, xvars>>

\* Mutant: the timeout destroys the local call and answers nothing.
LocalTimeout_Silent(r) ==
  /\ InFlight(r)
  /\ ~PendingHangup
  /\ reqs[r].idle >= RequestTimeout
  /\ reqs' = [reqs EXCEPT ![r] =
                Settled(reqs[r], IF reqs[r].st = "waiting" THEN "destroyed" ELSE "done")]
  /\ ev' = Event("timeout", "")
  /\ UNCHANGED <<socks, ws, pingInterval, intervals, reconnectDelay, timers, npings, sent, mvars, xvars>>

\* req.setTimeout(25000, ...): the socket of the local call was idle for 25s.
LocalTimeout(r) ==
  /\ InFlight(r)
  /\ ~PendingHangup
  /\ reqs[r].idle >= RequestTimeout
  /\ reqs' = [reqs EXCEPT ![r] =
                Settled(reqs[r], IF reqs[r].st = "waiting" THEN "destroyed" ELSE "done")]
  /\ sent' = SendIfOpen(sent, r, NoRes, TimeoutFrame(reqs[r].id))
  /\ ev' = Event("timeout", "")
  /\ UNCHANGED <<socks, ws, pingInterval, intervals, reconnectDelay, timers, npings, mvars, xvars>>

\* TimeStep ms pass; no idle timer is overdue.
Tick ==
  /\ \E r \in Requests : InFlight(r)
  /\ ~PendingHangup
  /\ \A r \in Requests : InFlight(r) => reqs[r].idle < RequestTimeout
  /\ reqs' = [r \in Requests |->
                IF InFlight(r)
                  THEN [reqs[r] EXCEPT !.age = @ + TimeStep, !.idle = @ + TimeStep]
                  ELSE reqs[r]]
  /\ ev' = Event("tick", "")
  /\ UNCHANGED <<socks, ws, pingInterval, intervals, reconnectDelay, timers,
                 sent, npings, mvars, xvars>>

Next ==
  \/ \E i \in 1..MaxSess : Connect(i)
  \/ \E s \in Sessions : OnOpen(s)
  \/ \E t \in Sessions : Heartbeat(t)
  \/ \E s \in Sessions, typ \in MsgTypes : Receive(s, typ)
  \/ \E s \in Sessions : OnError(s)
  \/ \E s \in Sessions : PeerClose(s)
  \/ \E s \in Sessions : OnClose(s)
  \/ \E r \in Requests : LocalResponse(r)
  \/ \E r \in Requests, res \in LocalReplies : LocalEnd(r, res)
  \/ \E r \in Requests, e \in {"fail", "hangup"} : LocalError(r, e)
  \/ \E r \in Requests : LocalTimeout(r)
  \/ Tick

Spec == Init /\ [][Next]_vars

\* Node's timers fire: time passes, a due idle timeout runs its callback, and
\* the error of a destroyed request is delivered.
FairSpec ==
  /\ Spec
  /\ WF_vars(Tick)
  /\ \A r \in Requests : WF_vars(LocalTimeout(r))
  /\ \A r \in Requests : WF_vars(LocalError(r, "hangup"))

\* The timer set by the close handler fires too.
RetrySpec ==
  /\ FairSpec
  /\ WF_vars(\E i \in 1..MaxSess : Connect(i))

\* One session that carries several requests at once; reconnects are left
\* to Spec.
ConcNext ==
  \/ OnOpen(1)
  \/ Heartbeat(1)
  \/ \E typ \in MsgTypes : OnMessage(1, typ)
  \/ PeerClose(1)
  \/ OnClose(1)
  \/ \E r \in Requests : LocalResponse(r)
  \/ \E r \in Requests, res \in LocalReplies : LocalEnd(r, res)
  \/ \E r \in Requests, e \in {"fail", "hangup"} : LocalError(r, e)
  \/ \E r \in Requests : LocalTimeout(r)
  \/ Tick

ConcSpec == Init /\ [][ConcNext]_vars

\* ------------------------------------------- one request frame, forwarded
\* ws.on('message'): a frame of type 'request' has been parsed.
FrameArrives(f) ==
  /\ msg = NoFrame
  /\ msg' = f
  /\ ev' = Event("message", "request")
  /\ UNCHANGED <<call, tvars, mvars, rvars, cvars, bvars, gvars>>

\* handleRequest(msg) up to req.end().
Forward ==
  /\ msg # NoFrame
  /\ call = NoCall
  /\ call' = LocalCall(msg)
  /\ ev' = Event("forward", "")
  /\ UNCHANGED <<msg, tvars, mvars, rvars, cvars, bvars, gvars>>

FwdNext ==
  \/ \E f \in Frames : FrameArrives(f)
  \/ Forward

FwdSpec == Init /\ [][FwdNext]_vars

\* ------------------------------------------------------- the responders
\* app.listen(PORT): one of the templates is started.
Listen(t) ==
  /\ tpl = "none"
  /\ tpl' = t
  /\ ev' = Event("listen", t)
  /\ UNCHANGED <<now, hits, acc, http, tvars, mvars, fvars, cvars, bvars, gvars>>

\* Half a window passes on the server's clock.
Elapse ==
  /\ tpl # "none"
  /\ now < MaxClock
  /\ now' = now + (Window \div 2)
  /\ ev' = Event("elapse", "")
  /\ UNCHANGED <<tpl, hits, acc, http, tvars, mvars, fvars, cvars, bvars, gvars>>

\* app.get('/health')
Health ==
  /\ tpl # "none"
  /\ http' = [path |-> "/health", ip |-> "", message |-> Undefined,
              res |-> EndJson(200, "{\"status\":\"ok\"}"),
              llm |-> FALSE, inboxed |-> FALSE]
  /\ ev' = Event("health", "")
  /\ UNCHANGED <<tpl, now, hits, acc, tvars, mvars, fvars, cvars, bvars, gvars>>

\* handleChat(req, res) for a POST from ip whose body has the message m; o is
\* how the backend ends when the request gets that far.
Chat(ip, m, o) ==
  /\ tpl # "none"
  /\ o \in Outcomes(tpl)
  /\ ip = "b" => Len(acc["b"]) < MaxOther
  /\ hits' = Counted(hits, ip, now)
  /\ IF rateLimit(hits, ip, now)
       THEN /\ http' = [path |-> "chat", ip |-> ip, message |-> m,
                        res |-> EndJson(TooManyRequests, "{\"error\":\"rate limited\"}"),
                        llm |-> FALSE, inboxed |-> FALSE]
            /\ UNCHANGED acc
       ELSE /\ http' = [path |-> "chat", ip |-> ip, message |-> m,
                        res |-> Answer(tpl, m, o),
                        llm |-> (Validate(tpl, m) = "ok" /\ tpl # "mailbox"),
                        inboxed |-> (Validate(tpl, m) = "ok" /\ tpl = "mailbox")]
            /\ acc' = [acc EXCEPT ![ip] = Append(@, now)]
  /\ ev' = Event("chat", ip)
  /\ UNCHANGED <<tpl, now, tvars, mvars, fvars, cvars, bvars, gvars>>

\* Every kind of request and every way the backend can end, at one instant.
ServerNext ==
  \/ \E t \in Templates : Listen(t)
  \/ Health
  \/ \E ip \in IPs, m \in Messages, o \in {"content", "throw", "empty", "reject",
                                             "reply", "fallback"} : Chat(ip, m, o)

ServerSpec == Init /\ [][ServerNext]_vars

\* The rate limiter over time: a valid and an invalid request, a backend
\* that answers.
LimitNext ==
  \/ \E t \in Templates : Listen(t)
  \/ Elapse
  \/ \E ip \in IPs, m \in {Undefined, Str("hi")}, o \in {"content", "reply"} :
       Chat(ip, m, o)

LimitSpec == Init /\ [][LimitNext]_vars

\* ------------------------------------------- the relay and one session
\* Mutant: the client handles request frames only once 'auth_ok' has come.
RelayFrame_Gated(s, typ) ==
  /\ socks[s] = "OPEN"
  /\ typ = "request" => NumReqs < MaxReq
  /\ IF typ = "request" /\ s \in authed
       THEN handleRequest(s)
       ELSE /\ ev' = Event("message", typ)
            /\ UNCHANGED reqs
  /\ authed' = IF typ = "auth_ok" THEN authed \cup {s} ELSE authed
  /\ UNCHANGED <<socks, ws, pingInterval, intervals, reconnectDelay, timers,
                 sent, npings, mvars, fvars, rvars, cvars, bvars>>

\* The relay sends a frame of kind typ on socket s and the client's message
\* handler runs; the relay notes the sockets it has acknowledged.
RelayFrame(s, typ) ==
  /\ socks[s] = "OPEN"
  /\ typ = "request" => NumReqs < MaxReq
  /\ IF typ = "request"
       THEN handleRequest(s)
       ELSE /\ ev' = Event("message", typ)
            /\ UNCHANGED reqs
  /\ authed' = IF typ = "auth_ok" THEN authed \cup {s} ELSE authed
  /\ UNCHANGED <<socks, ws, pingInterval, intervals, reconnectDelay, timers,
                 sent, npings, mvars, fvars, rvars, cvars, bvars>>

\* One session on which 'auth_ok' arrives at any time, or never.
GateNext ==
  \/ OnOpen(1)
  \/ \E typ \in {"auth_ok", "request"} : RelayFrame(1, typ)
  \/ Heartbeat(1)
  \/ \E r \in Requests : LocalResponse(r)
  \/ \E r \in Requests, res \in LocalReplies : LocalEnd(r, res)
  \/ \E r \in Requests, e \in {"fail", "hangup"} : LocalError(r, e)
  \/ \E r \in Requests : LocalTimeout(r)
  \/ Tick

GateSpec == Init /\ [][GateNext]_vars

\* ------------------------------------------------ the backend call
\* The bodies the OpenClaw gateway may send, and what
\* JSON.parse(body).choices?.[0]?.message?.content evaluates to: a string,
\* Undefined when a link of the chain is missing, or an exception.
ClawBodies == {"content", "empty", "missing", "null", "garbage"}
ParseContent(b) ==
  CASE b = "content" -> [threw |-> FALSE, content |-> Str("hello")]
    [] b = "empty"   -> [threw |-> FALSE, content |-> Str("")]
    [] b = "missing" -> [threw |-> FALSE, content |-> Undefined]
    [] b = "null"    -> [threw |-> TRUE,  content |-> Undefined]
    [] b = "garbage" -> [threw |-> TRUE,  content |-> Undefined]

\* What openai.chat.completions.create may resolve with: a completion with
\* text, one whose content is null, one without choices.
Completions == {"content", "nullcontent", "nochoices"}

\* Mutant: a later resolve or reject replaces what the promise holds.
Settle_LastWins(p, fn, arg) ==
  [st |-> IF fn = "resolve" THEN "fulfilled" ELSE "rejected",
   val |-> arg,
   calls |-> Append(p.calls, [fn |-> fn, arg |-> arg])]

\* resolve(arg) or reject(arg) of a promise: only the first call settles it.
Settle(p, fn, arg) ==
  [st |-> IF p.st = "pending"
            THEN (IF fn = "resolve" THEN "fulfilled" ELSE "rejected")
            ELSE p.st,
   val |-> IF p.st = "pending" THEN arg ELSE p.val,
   calls |-> Append(p.calls, [fn |-> fn, arg |-> arg])]

\* handleChat has accepted a valid message and awaits the backend call:
\* openai.chat.completions.create(...) or callOpenClaw(message, sessionId).
callOpenClaw(c) ==
  /\ tpl \in {"generic", "httpapi"}
  /\ job[c] = "none"
  /\ \A d \in Calls : d < c => job[d] # "none"
  /\ job' = [job EXCEPT ![c] = "awaiting"]
  /\ prom' = [prom EXCEPT ![c] = [NoProm EXCEPT !.st = "pending"]]
  /\ creq' = [creq EXCEPT ![c] = IF tpl = "generic" THEN "sdk" ELSE "waiting"]
  /\ ev' = Event("call", "")
  /\ UNCHANGED <<wrote, tvars, mvars, fvars, rvars, cvars, gvars>>

\* The OpenAI SDK call fulfils with the completion k.
OpenAIReturns(c, k) ==
  /\ creq[c] = "sdk"
  /\ prom' = [prom EXCEPT ![c] = Settle(@, "resolve", k)]
  /\ creq' = [creq EXCEPT ![c] = "ended"]
  /\ ev' = Event("completion", k)
  /\ UNCHANGED <<job, wrote, tvars, mvars, fvars, rvars, cvars, gvars>>

\* The OpenAI SDK call throws (network, status, its own timeout).
OpenAIThrows(c) ==
  /\ creq[c] = "sdk"
  /\ prom' = [prom EXCEPT ![c] = Settle(@, "reject", "APIError")]
  /\ creq' = [creq EXCEPT ![c] = "closed"]
  /\ ev' = Event("apierror", "")
  /\ UNCHANGED <<job, wrote, tvars, mvars, fvars, rvars, cvars, gvars>>

\* The http.request callback of callOpenClaw: the response has begun.
ClawResponse(c) ==
  /\ creq[c] = "waiting"
  /\ creq' = [creq EXCEPT ![c] = "receiving"]
  /\ ev' = Event("clawresponse", "")
  /\ UNCHANGED <<job, prom, wrote, tvars, mvars, fvars, rvars, cvars, gvars>>

\* res.on('end'): the body b is complete; it is parsed and the promise
\* resolved with the content or the stand-in text, or rejected.
ClawEnd(c, b) ==
  /\ creq[c] = "receiving"
  /\ prom' = [prom EXCEPT ![c] =
               IF ParseContent(b).threw
                 THEN Settle(@, "reject", "parse")
                 ELSE Settle(@, "resolve",
                             IF ParseContent(b).content \in {Undefined, Str("")}
                               THEN "no response from LLM"
                               ELSE ParseContent(b).content.v)]
  /\ creq' = [creq EXCEPT ![c] = "ended"]
  /\ ev' = Event("clawend", b)
  /\ UNCHANGED <<job, wrote, tvars, mvars, fvars, rvars, cvars, gvars>>

\* req.on('error', reject) with e = "fail": the connection is refused, or
\* reset with a socket error; with e = "hangup": the 'socket hang up' error
\* that req.destroy() emits when no response has begun.
ClawError(c, e) ==
  /\ \/ e = "fail"   /\ creq[c] \in {"waiting", "receiving"}
     \/ e = "hangup" /\ creq[c] = "destroyed"
  /\ prom' = [prom EXCEPT ![c] = Settle(@, "reject", e)]
  /\ creq' = [creq EXCEPT ![c] = "closed"]
  /\ ev' = Event("clawerror", e)
  /\ UNCHANGED <<job, wrote, tvars, mvars, fvars, rvars, cvars, gvars>>

\* req.setTimeout(22000, ...): req.destroy(), then reject(Error('timeout')).
ClawTimeout(c) ==
  /\ creq[c] \in {"waiting", "receiving"}
  /\ prom' = [prom EXCEPT ![c] = Settle(@, "reject", "timeout")]
  /\ creq' = [creq EXCEPT ![c] = IF creq[c] = "waiting" THEN "destroyed" ELSE "closed"]
  /\ ev' = Event("clawtimeout", "")
  /\ UNCHANGED <<job, wrote, tvars, mvars, fvars, rvars, cvars, gvars>>

\* The gateway closes the connection in the middle of the body: Node emits
\* 'aborted' and 'close' on the response, which has no listener for them,
\* and neither 'end' nor an 'error' on the request; the socket's timer goes
\* with the socket.
ClawAborted(c) ==
  /\ creq[c] = "receiving"
  /\ creq' = [creq EXCEPT ![c] = "closed"]
  /\ ev' = Event("clawaborted", "")
  /\ UNCHANGED <<job, prom, wrote, tvars, mvars, fvars, rvars, cvars, gvars>>

\* The response handleChat ends once the awaited promise p is settled: the
\* try branch with the reply, or the catch branch when the promise was
\* rejected or reading the reply threw.
Finish(t, p) ==
  CASE t = "generic" /\ p.st = "fulfilled" /\ p.val = "content" ->
         EndJson(200, "{\"reply\":\"hello\"}")
    [] t = "generic" /\ p.st = "fulfilled" /\ p.val = "nullcontent" ->
         EndJson(200, "{\"reply\":null}")
    [] t = "generic" ->
         EndJson(200, "{\"reply\":\"something went wrong, try again\"}")
    [] t = "httpapi" /\ p.st = "fulfilled" /\ p.val = "hello" ->
         EndJson(200, "{\"response\":\"hello\"}")
    [] t = "httpapi" /\ p.st = "fulfilled" ->
         EndJson(200, "{\"response\":\"no response from LLM\"}")
    [] OTHER ->
         EndJson(200, "{\"response\":\"brain glitch. try again.\"}")

\* The continuation of `await`: it runs once, after the promise is settled.
Continue(c) ==
  /\ job[c] = "awaiting"
  /\ prom[c].st \in {"fulfilled", "rejected"}
  /\ wrote' = [wrote EXCEPT ![c] = Append(@, Finish(tpl, prom[c]))]
  /\ job' = [job EXCEPT ![c] = "answered"]
  /\ ev' = Event("continue", "")
  /\ UNCHANGED <<prom, creq, tvars, mvars, fvars, rvars, cvars, gvars>>

BackendNext ==
  \/ \E t \in {"generic", "httpapi"} : Listen(t)
  \/ \E c \in Calls : callOpenClaw(c)
  \/ \E c \in Calls, k \in Completions : OpenAIReturns(c, k)
  \/ \E c \in Calls : OpenAIThrows(c)
  \/ \E c \in Calls : ClawResponse(c)
  \/ \E c \in Calls, b \in ClawBodies : ClawEnd(c, b)
  \/ \E c \in Calls, e \in {"fail", "hangup"} : ClawError(c, e)
  \/ \E c \in Calls : ClawTimeout(c)
  \/ \E c \in Calls : ClawAborted(c)
  \/ \E c \in Calls : Continue(c)

BackendSpec == Init /\ [][BackendNext]_vars

\* ------------------------------------- the mailbox server behind the tunnel
FallbackBody == "{\"response\":\"still thinking on that one. try again in a moment.\"}"
AgentBody    == "{\"response\":\"agent says\"}"

\* The local call reaches the mailbox server with a valid message: handleChat
\* writes the inbox entry, computes its deadline and enters the loop.
Arrive ==
  /\ reqs[1].st = "waiting"
  /\ chat.pc = "none"
  /\ chat' = [chat EXCEPT !.pc = "waiting", !.deadline = clk + PollDeadline,
                          !.wake = clk]
  /\ ev' = Event("arrive", "")
  /\ UNCHANGED <<tvars, mvars, fvars, rvars, bvars, gvars, clk, box>>

\* res.end(body) of the handleChat call
Reply(body) ==
  [chat EXCEPT !.pc = "replied", !.at = clk, !.body = body, !.replies = @ + 1]

\* Mutant: the loop runs until the worker has answered.
PollOutbox_WaitsForWorker ==
  /\ chat.pc = "waiting"
  /\ clk >= chat.wake
  /\ IF box.st = "full"
       THEN chat' = Reply(AgentBody) /\ box' = [box EXCEPT !.st = "absent"]
       ELSE IF box.st = "partial"
         THEN chat' = Reply(FallbackBody) /\ UNCHANGED box
         ELSE chat' = [chat EXCEPT !.wake = clk + PollInterval] /\ UNCHANGED box
  /\ ev' = Event("poll", "")
  /\ UNCHANGED <<tvars, mvars, fvars, rvars, bvars, gvars, clk>>

\* One evaluation of the loop head and body: past the deadline the fallback
\* is sent; a complete entry is read, deleted and returned; an entry that
\* does not parse leaves the loop for the fallback; otherwise the call
\* sleeps for the poll interval.
PollOutbox ==
  /\ chat.pc = "waiting"
  /\ clk >= chat.wake
  /\ IF clk >= chat.deadline
       THEN chat' = Reply(FallbackBody) /\ UNCHANGED box
       ELSE IF box.st = "full"
         THEN chat' = Reply(AgentBody) /\ box' = [box EXCEPT !.st = "absent"]
         ELSE IF box.st = "partial"
           THEN chat' = Reply(FallbackBody) /\ UNCHANGED box
           ELSE chat' = [chat EXCEPT !.wake = clk + PollInterval] /\ UNCHANGED box
  /\ ev' = Event("poll", "")
  /\ UNCHANGED <<tvars, mvars, fvars, rvars, bvars, gvars, clk>>

\* The worker's fs.writeFileSync(outbox/<id>.json) begins, at any time after
\* the inbox entry exists, and completes.
WorkerWrite ==
  /\ chat.pc # "none"
  /\ ~box.written
  /\ box' = [st |-> "partial", written |-> TRUE]
  /\ ev' = Event("write", "")
  /\ UNCHANGED <<tvars, mvars, fvars, rvars, bvars, gvars, clk, chat>>

WorkerWritten ==
  /\ box.st = "partial"
  /\ box' = [box EXCEPT !.st = "full"]
  /\ ev' = Event("written", "")
  /\ UNCHANGED <<tvars, mvars, fvars, rvars, bvars, gvars, clk, chat>>

\* The reply of handleChat reaches the tunnel client: the http.request
\* callback, then the 'end' event with the body res.end() sent along.
ReplyArrives ==
  /\ chat.pc = "replied"
  /\ LocalResponse(1)

ReplyEnds ==
  LocalEnd(1, [status |-> 200,
               headers |-> { <<"content-type", "string", "application/json">> },
               body |-> chat.body])

\* The times at which a pending timer is due: the forwarder's setTimeout and
\* the idle timeout of the tunnel client's local call.
Due ==
  (IF chat.pc = "waiting" THEN {chat.wake} ELSE {})
    \cup (IF InFlight(1) THEN {clk + RequestTimeout - reqs[1].idle} ELSE {})

\* The request or the reply is on its way between the two processes.
InTransit == reqs[1].st = "waiting" /\ chat.pc \in {"none", "replied"}
TransitEnd == IF chat.pc = "none" THEN MaxLatency ELSE chat.at + MaxLatency

\* d ms pass: up to the next timer that is due, or while a message is on its
\* way.  A due timer runs before more time passes.
Pass(d) ==
  /\ d > 0
  /\ ~PendingHangup
  /\ reqs[1].st # "receiving"
  /\ \A t \in Due : clk + d <= t
  /\ InTransit => clk + d <= TransitEnd
  /\ clk + d \in Due \/ InTransit
  /\ clk' = clk + d
  /\ reqs' = [reqs EXCEPT ![1] = IF InFlight(1)
                                   THEN [@ EXCEPT !.age = @ + d, !.idle = @ + d]
                                   ELSE @]
  /\ ev' = Event("pass", "")
  /\ UNCHANGED <<socks, ws, pingInterval, intervals, reconnectDelay, timers,
                 sent, npings, mvars, fvars, rvars, bvars, gvars, chat, box>>

ChainNext ==
  \/ OnOpen(1)
  \/ Receive(1, "request")
  \/ Arrive
  \/ PollOutbox
  \/ WorkerWrite
  \/ WorkerWritten
  \/ ReplyArrives
  \/ ReplyEnds
  \/ LocalTimeout(1)
  \/ LocalError(1, "hangup")
  \/ \E d \in (1..MaxLatency) \cup { t - clk : t \in Due } : Pass(d)

ChainSpec == Init /\ [][ChainNext]_vars

\* Node runs a timer that is due and delivers what has arrived.
FairChainSpec ==
  /\ ChainSpec
  /\ WF_vars(Arrive)
  /\ WF_vars(PollOutbox)
  /\ WF_vars(LocalTimeout(1))
  /\ WF_vars(LocalError(1, "hangup"))
  /\ WF_vars(\E d \in (1..MaxLatency) \cup { t - clk : t \in Due } : Pass(d))

\* --------------------------------------------------- the mailbox server
\* handleChat(req, res) for a valid message: the id is generated and
\* writeFileSync starts to create inbox/<id>.json.
handleChat(k) ==
  /\ fwd[k].pc = "idle"
  /\ \A j \in Mail : j < k => fwd[j].pc # "idle"
  /\ inbox' = [inbox EXCEPT ![k] = [st |-> "partial", id |-> k]]
  /\ fwd' = [fwd EXCEPT ![k].pc = "writing"]
  /\ ev' = Event("chat", "")
  /\ UNCHANGED <<outbox, wk, hist, tvars, xvars>>

\* writeFileSync(inbox/<id>.json, {id, sessionId, message, timestamp}) returns.
InboxWritten(k) ==
  /\ fwd[k].pc = "writing"
  /\ inbox' = [inbox EXCEPT ![k].st = "full"]
  /\ fwd' = [fwd EXCEPT ![k].pc = "polling"]
  /\ hist' = [hist EXCEPT ![k] = Append(@, Did("in", NoReply))]
  /\ ev' = Event("inboxed", "")
  /\ UNCHANGED <<outbox, wk, tvars, xvars>>

\* Mutant: the forwarder takes whatever completed entry it finds.
Poll_AnyEntry(k) ==
  /\ fwd[k].pc = "polling"
  /\ \E j \in Mail :
       /\ outbox[j].st = "full"
       /\ fwd' = [fwd EXCEPT ![k] = [pc |-> "replied", polled |-> TRUE,
                                     resp |-> outbox[j].reply]]
       /\ outbox' = [outbox EXCEPT ![j] = NoOut]
       /\ hist' = [hist EXCEPT ![k] = @ \o <<Did("fread", outbox[j].reply),
                                              Did("fdel", NoReply),
                                              Did("reply", outbox[j].reply)>>]
  /\ ev' = Event("poll", "found")
  /\ UNCHANGED <<inbox, wk, tvars, xvars>>

\* Mutant: an entry that does not parse is read again on the next turn.
Poll_Retries(k) ==
  /\ fwd[k].pc = "polling"
  /\ CASE outbox[k].st \in {"absent", "partial"} ->
            /\ fwd' = [fwd EXCEPT ![k].polled = TRUE]
            /\ ev' = Event("poll", "sleep")
            /\ UNCHANGED <<outbox, hist>>
       [] outbox[k].st = "full" ->
            /\ fwd' = [fwd EXCEPT ![k] = [pc |-> "replied", polled |-> TRUE,
                                          resp |-> outbox[k].reply]]
            /\ outbox' = [outbox EXCEPT ![k] = NoOut]
            /\ hist' = [hist EXCEPT ![k] = @ \o <<Did("fread", outbox[k].reply),
                                                   Did("fdel", NoReply),
                                                   Did("reply", outbox[k].reply)>>]
            /\ ev' = Event("poll", "found")
  /\ UNCHANGED <<inbox, wk, tvars, xvars>>

\* One turn of the polling loop: existsSync(outboxFile), then read, parse,
\* unlink and reply, or break out when the content does not parse, or sleep
\* 500 ms.
Poll(k) ==
  /\ fwd[k].pc = "polling"
  /\ CASE outbox[k].st = "absent" ->
            /\ fwd' = [fwd EXCEPT ![k].polled = TRUE]
            /\ ev' = Event("poll", "sleep")
            /\ UNCHANGED <<outbox, hist>>
       [] outbox[k].st = "full" ->
            /\ fwd' = [fwd EXCEPT ![k] = [pc |-> "replied", polled |-> TRUE,
                                          resp |-> outbox[k].reply]]
            /\ outbox' = [outbox EXCEPT ![k] = NoOut]
            /\ hist' = [hist EXCEPT ![k] = @ \o <<Did("fread", outbox[k].reply),
                                                   Did("fdel", NoReply),
                                                   Did("reply", outbox[k].reply)>>]
            /\ ev' = Event("poll", "found")
       [] outbox[k].st = "partial" ->
            /\ fwd' = [fwd EXCEPT ![k] = [pc |-> "replied", polled |-> TRUE,
                                          resp |-> Fallback]]
            /\ hist' = [hist EXCEPT ![k] = Append(@, Did("fallback", Fallback))]
            /\ ev' = Event("poll", "break")
            /\ UNCHANGED outbox
  /\ UNCHANGED <<inbox, wk, tvars, xvars>>

\* Mutant: the forwarder withdraws the request when it gives up.
Deadline_Withdraws(k) ==
  /\ fwd[k].pc = "polling"
  /\ fwd[k].polled
  /\ fwd' = [fwd EXCEPT ![k] = [pc |-> "replied", polled |-> TRUE, resp |-> Fallback]]
  /\ hist' = [hist EXCEPT ![k] = Append(@, Did("fallback", Fallback))]
  /\ inbox' = [inbox EXCEPT ![k] = NoFile]
  /\ ev' = Event("deadline", "")
  /\ UNCHANGED <<outbox, wk, tvars, xvars>>

\* Date.now() >= deadline when the loop condition is tested: the fallback
\* reply.  The first test is made right after the deadline was computed, so
\* the loop body has run at least once.
Deadline(k) ==
  /\ fwd[k].pc = "polling"
  /\ fwd[k].polled
  /\ fwd' = [fwd EXCEPT ![k] = [pc |-> "replied", polled |-> TRUE, resp |-> Fallback]]
  /\ hist' = [hist EXCEPT ![k] = Append(@, Did("fallback", Fallback))]
  /\ ev' = Event("deadline", "")
  /\ UNCHANGED <<inbox, outbox, wk, tvars, xvars>>

\* ------------------------------------------------------------ the worker
\* Mutant: a pass looks at the newest entry only.
processInbox_NewestOnly ==
  /\ wk.pc = "idle"
  /\ \E k \in Mail : inbox[k].st # "absent"
  /\ LET newest == CHOOSE k \in Mail :
                      /\ inbox[k].st # "absent"
                      /\ \A j \in Mail : inbox[j].st # "absent" => j <= k
     IN wk' = [Idle EXCEPT !.pc = "next", !.files = {newest},
                           !.snap = { k \in Mail : inbox[k].st = "full" }]
  /\ ev' = Event("pass", "")
  /\ UNCHANGED <<inbox, outbox, fwd, hist, tvars, xvars>>

\* processInbox() is called (at start, by fs.watch or by the 2 s interval):
\* readdirSync lists the '.json' entries.  `snap` remembers the entries that
\* were complete at that moment.  A pass over an empty inbox does nothing.
processInbox ==
  /\ wk.pc = "idle"
  /\ \E k \in Mail : inbox[k].st # "absent"
  /\ wk' = [Idle EXCEPT !.pc = "next",
                        !.files = { k \in Mail : inbox[k].st # "absent" },
                        !.snap = { k \in Mail : inbox[k].st = "full" }]
  /\ ev' = Event("pass", "")
  /\ UNCHANGED <<inbox, outbox, fwd, hist, tvars, xvars>>

\* After an entry: the next file of the listing, or the pass is over.
Resume(w) ==
  IF w.files = {} THEN Idle
  ELSE [w EXCEPT !.pc = "next", !.cur = 0, !.id = 0, !.reply = NoReply]

\* for (const file of files): JSON.parse(readFileSync(filePath)) gives data,
\* or throws on a file whose content is not there yet.
ReadEntry(k) ==
  /\ wk.pc = "next"
  /\ k \in wk.files
  /\ IF inbox[k].st = "full"
       THEN /\ wk' = [wk EXCEPT !.pc = "exec", !.files = @ \ {k}, !.cur = k,
                                !.id = inbox[k].id]
            /\ hist' = [hist EXCEPT ![k] = Append(@, Did("read", NoReply))]
            /\ ev' = Event("read", "data")
       ELSE /\ wk' = [wk EXCEPT !.pc = "catch", !.files = @ \ {k}, !.cur = k]
            /\ ev' = Event("read", "throw")
            /\ UNCHANGED hist
  /\ UNCHANGED <<inbox, outbox, fwd, tvars, xvars>>

\* execSync('openclaw agent ...') returns the agent's JSON (payload text),
\* JSON without a payload (the default reply), or throws.
ExecOutcomes == {"text", "sideways", "throw"}

ExecDone(o) ==
  /\ wk.pc = "exec"
  /\ wk' = CASE o = "text"     -> [wk EXCEPT !.pc = "write", !.reply = AgentReply(wk.id)]
              [] o = "sideways" -> [wk EXCEPT !.pc = "write", !.reply = Sideways]
              [] o = "throw"    -> [wk EXCEPT !.pc = "catch"]
  /\ ev' = Event("exec", o)
  /\ UNCHANGED <<inbox, outbox, fwd, hist, tvars, xvars>>

\* Mutant: the catch block only logs the error.
CatchEntry_LogsOnly ==
  /\ wk.pc = "catch"
  /\ wk' = Resume(wk)
  /\ ev' = Event("catch", "skip")
  /\ UNCHANGED <<inbox, outbox, fwd, hist, tvars, xvars>>

\* catch (err): the file is read again; when it parses the glitch reply is
\* written under data.id, when it does not the entry is left for a later pass.
CatchEntry ==
  /\ wk.pc = "catch"
  /\ IF inbox[wk.cur].st = "full"
       THEN /\ wk' = [wk EXCEPT !.pc = "write", !.id = inbox[wk.cur].id,
                                !.reply = Glitch]
            /\ hist' = [hist EXCEPT ![wk.cur] =
                          IF "read" \in Ops(@) THEN @
                          ELSE Append(@, Did("read", NoReply))]
            /\ ev' = Event("catch", "glitch")
       ELSE /\ wk' = Resume(wk)
            /\ ev' = Event("catch", "skip")
            /\ UNCHANGED hist
  /\ UNCHANGED <<inbox, outbox, fwd, tvars, xvars>>

\* writeFileSync(outbox/<id>.json, {reply}) creates the file ...
WriteOutbox ==
  /\ wk.pc = "write"
  /\ outbox' = [outbox EXCEPT ![wk.id] = [st |-> "partial", reply |-> wk.reply]]
  /\ wk' = [wk EXCEPT !.pc = "writing"]
  /\ ev' = Event("write", "")
  /\ UNCHANGED <<inbox, fwd, hist, tvars, xvars>>

\* ... and returns with the content in place.
OutboxWritten ==
  /\ wk.pc = "writing"
  /\ outbox' = [outbox EXCEPT ![wk.id].st = "full"]
  /\ hist' = [hist EXCEPT ![wk.id] = Append(@, Did("out", wk.reply))]
  /\ wk' = [wk EXCEPT !.pc = "unlink"]
  /\ ev' = Event("written", "")
  /\ UNCHANGED <<inbox, fwd, tvars, xvars>>

\* fs.unlinkSync(filePath): the inbox entry is removed.
UnlinkEntry ==
  /\ wk.pc = "unlink"
  /\ inbox' = [inbox EXCEPT ![wk.cur] = NoFile]
  /\ hist' = [hist EXCEPT ![wk.cur] = Append(@, Did("del", NoReply))]
  /\ wk' = Resume(wk)
  /\ ev' = Event("unlink", "")
  /\ UNCHANGED <<outbox, fwd, tvars, xvars>>

MailNext ==
  \/ \E k \in Mail : handleChat(k)
  \/ \E k \in Mail : InboxWritten(k)
  \/ \E k \in Mail : Poll(k)
  \/ \E k \in Mail : Deadline(k)
  \/ processInbox
  \/ \E k \in Mail : ReadEntry(k)
  \/ \E o \in ExecOutcomes : ExecDone(o)
  \/ CatchEntry
  \/ WriteOutbox
  \/ OutboxWritten
  \/ UnlinkEntry

MailSpec == Init /\ [][MailNext]_vars

\* Both processes keep running: the server's loop turns and its deadline
\* comes, the worker's calls return and its 2 s interval starts new passes.
FairMailSpec ==
  /\ MailSpec
  /\ \A k \in Mail : WF_vars(InboxWritten(k))
  /\ \A k \in Mail : WF_vars(Poll(k))
  /\ \A k \in Mail : WF_vars(Deadline(k))
  /\ WF_vars(processInbox)
  /\ WF_vars(\E k \in Mail : ReadEntry(k))
  /\ WF_vars(\E o \in ExecOutcomes : ExecDone(o))
  /\ WF_vars(CatchEntry)
  /\ WF_vars(WriteOutbox)
  /\ WF_vars(OutboxWritten)
  /\ WF_vars(UnlinkEntry)

\* ------------------------------------------------------ reading the log
IsResponse(i) == sent[i].frame.type = "response"
IsPing(i)     == sent[i].frame.type = "ping"
IsAuth(i)     == sent[i].frame.type = "auth"

\* The positions of the response frames that answer request r.
ResponsesTo(r) == {i \in 1..Len(sent) : IsResponse(i) /\ sent[i].rq = r}
Responded(r)   == \E i \in ResponsesTo(r) : sent[i].frame.id = reqs[r].id

\* Socket s was opened: its 'open' handler sent the auth frame on it.
Opened(s) == \E i \in 1..Len(sent) : IsAuth(i) /\ sent[i].on = s

\* This step hands exactly one new frame to ws.send().
SendsOne == Len(sent') = Len(sent) + 1 /\ SubSeq(sent', 1, Len(sent)) = sent
NewEntry == sent'[Len(sent')]

C2_AtMostOneResponse ==
  \A r \in Requests : Cardinality(ResponsesTo(r)) <= 1

\* ---------------------------------------------------------------- C3
\* C3: a response frame is only ever sent on the session that received the
\* request it answers.
C3_NoCrossSessionResponse ==
  \A i \in 1..Len(sent) :
    IsResponse(i) => sent[i].on = reqs[sent[i].rq].sess

\* ---------------------------------------------------------------- C4
\* C4: a local call still running more than 25s after the request frame
\* arrived is answered with the 504 timeout frame only, and every 504 frame
\* leaves less than 30s after the request frame arrived.
C4_TimeoutWithinRelayBudget ==
  [][\A r \in Requests :
       (SendsOne /\ NewEntry.rq = r /\ InFlight(r)) =>
         /\ reqs[r].age > RequestTimeout => NewEntry.frame.status = 504
         /\ NewEntry.frame.status = 504 => reqs[r].age < RelayTimeout]_vars

\* ---------------------------------------------------------------- C5
\* C5: when the local call fails while the session that received the request
\* is open, the frame sent for it is the 502 frame with the JSON content
\* type and the body {"error":"local server unreachable"}.
C5_UnreachableIs502 ==
  [][\A r \in Requests :
       (/\ InFlight(r) /\ ~InFlight(r)'
        /\ ev' = [op |-> "reqerror", typ |-> "fail"]
        /\ socks[reqs[r].sess] = "OPEN") =>
         /\ SendsOne
         /\ NewEntry.rq = r
         /\ NewEntry.on = reqs[r].sess
         /\ NewEntry.frame =
              [type |-> "response", id |-> reqs[r].id, status |-> 502,
               headers |-> { <<"content-type", "application/json">> },
               body |-> "{\"error\":\"local server unreachable\"}"]]_vars

\* A failed call was answered with a 502 frame.
C5_Witness ==
  \E r \in Requests :
    /\ reqs[r].st = "done"
    /\ ev = [op |-> "reqerror", typ |-> "fail"]
    /\ \E i \in ResponsesTo(r) : sent[i].frame.status = 502

\* ---------------------------------------------------------------- C6
\* The delay the k-th close in a row without an open must use.
BackoffStep(k) ==
  CASE k = 1 -> 1000 [] k = 2 -> 2000 [] k = 3 -> 4000
    [] k = 4 -> 8000 [] k = 5 -> 16000 [] OTHER -> 30000

\* The newest socket below s that was opened (0 when there is none).
LastOpenedBelow(s) ==
  IF \E j \in 1..(s - 1) : Opened(j)
    THEN CHOOSE j \in 1..(s - 1) : Opened(j) /\ \A k \in (j + 1)..(s - 1) : ~Opened(k)
    ELSE 0

\* How many closes in a row, ending with the close of the never opened
\* socket s, have happened since the counter was last 1000.
ClosesInARow(s) ==
  IF LastOpenedBelow(s) = 0 THEN s ELSE s - LastOpenedBelow(s) + 1

\* C6: reconnectDelay and every scheduled reconnect delay is one of 1000,
\* 2000, 4000, 8000, 16000, 30000, and the close of a socket that never
\* opened schedules the next step of that sequence, 30000 from the sixth on.
C6_BackoffBounds ==
  /\ [](/\ reconnectDelay \in {1000, 2000, 4000, 8000, 16000, 30000}
        /\ \A i \in 1..Len(timers) :
             timers[i] \in {1000, 2000, 4000, 8000, 16000, 30000})
  /\ [][\A s \in Sessions :
         (socks[s] # "CLOSED" /\ socks'[s] = "CLOSED" /\ ~Opened(s)) =>
           /\ Len(timers') = Len(timers) + 1
           /\ timers'[Len(timers')] = BackoffStep(ClosesInARow(s))
           /\ reconnectDelay' = BackoffStep(ClosesInARow(s) + 1)]_vars

\* Six closes in a row without an open: the ceiling is in use.
C6_Witness ==
  /\ reconnectDelay = 30000
  /\ timers = <<30000>>
  /\ \A s \in 1..6 : socks[s] = "CLOSED" /\ ~Opened(s)

\* ---------------------------------------------------------------- C7
\* C7: from a socket's open to its close reconnectDelay is 1000, and the
\* reconnect that follows the close of an opened socket waits 1000 ms.
C7_BackoffReset ==
  \A s \in Sessions :
    Opened(s) =>
      /\ socks[s] \in {"OPEN", "CLOSING"} => reconnectDelay = 1000
      /\ (socks[s] = "CLOSED" /\ ws = s) => timers = <<1000>>

\* A socket opened after earlier failures has closed again.
C7_Witness ==
  \E s \in Sessions :
    /\ s > 2
    /\ Opened(s)
    /\ ~Opened(s - 1)
    /\ socks[s] = "CLOSED"
    /\ ws = s
    /\ timers = <<1000>>

\* ---------------------------------------------------------------- C8
\* C8: no response frame carries a header named, in any letter case,
\* content-length, transfer-encoding, connection, keep-alive, etag or
\* x-powered-by, and the frame that relays a local reply carries every other
\* string-valued header of that reply, name and value unchanged, and no more.
C8_HeaderStripping ==
  /\ \A i \in 1..Len(sent) :
       IsResponse(i) =>
         \A h \in sent[i].frame.headers :
           ToLowerCase(h[1]) \notin
             {"content-length", "transfer-encoding", "connection",
              "keep-alive", "etag", "x-powered-by"}
  /\ \A i \in 1..Len(sent) :
       (IsResponse(i) /\ sent[i].res # NoRes) =>
         /\ \A e \in sent[i].res.headers :
              (/\ e[2] = "string"
               /\ ToLowerCase(e[1]) \notin
                    {"content-length", "transfer-encoding", "connection",
                     "keep-alive", "etag", "x-powered-by"})
                => <<e[1], e[3]>> \in sent[i].frame.headers
         /\ \A h \in sent[i].frame.headers :
              \E e \in sent[i].res.headers :
                e[1] = h[1] /\ e[3] = h[2] /\ e[2] = "string"

\* A reply whose headers are written in mixed case was relayed with only its
\* one unlisted header left.
C8_Witness ==
  \E i \in 1..Len(sent) :
    /\ IsResponse(i)
    /\ sent[i].res.headers = MixedCaseEntries
    /\ sent[i].frame.headers = { <<"X-Bot", "yes">> }

\* ---------------------------------------------------------------- C9
\* C9: a heartbeat tick that finds the session open sends one ping on it, a
\* ping is never sent on a socket that is not open, and once a socket's close
\* handler has run no heartbeat timer is left until the next socket opens.
C9_Heartbeat ==
  /\ [](socks[ws] \in {"CLOSED", "CONNECTING"} => intervals = {})
  /\ [][/\ (npings' = npings + 1 /\ socks[ws] = "OPEN") =>
            (SendsOne /\ NewEntry = [on |-> ws, rq |-> 0, res |-> NoRes, frame |-> [type |-> "ping"]])
        /\ (Len(sent') > Len(sent) /\ sent'[Len(sent')].frame.type = "ping") =>
            (socks[ws] = "OPEN" /\ npings' = npings + 1)]_vars

\* A ping went out on the second session and that session has closed.
C9_Witness ==
  /\ \E i \in 1..Len(sent) : IsPing(i) /\ sent[i].on = 2
  /\ socks[2] = "CLOSED"
  /\ intervals = {}

\* --------------------------------------------------------------- C10
FramesOn(s) == {i \in 1..Len(sent) : sent[i].on = s}

\* C10: the first frame sent on a socket is its auth frame carrying the API
\* key, no socket gets a second auth frame, and an open socket has got one.
C10_AuthFirst ==
  \A s \in Sessions :
    /\ Cardinality({i \in FramesOn(s) : IsAuth(i)}) <= 1
    /\ socks[s] = "OPEN" => FramesOn(s) # {}
    /\ FramesOn(s) # {} =>
         LET first == CHOOSE i \in FramesOn(s) : \A j \in FramesOn(s) : i <= j
         IN  sent[first].frame = [type |-> "auth", api_key |-> "k1"]

\* A session carried its auth frame, then a ping and a response.
C10_Witness ==
  \E s \in Sessions :
    /\ \E i \in FramesOn(s) : IsPing(i)
    /\ \E i \in FramesOn(s) : IsResponse(i)
    /\ Cardinality({i \in FramesOn(s) : IsAuth(i)}) = 1

\* --------------------------------------------------------------- C11
\* C11: whenever the newest socket has had its close event exactly one
\* reconnect timer is pending, so the client is never left without a socket
\* and without a timer; and after the close of a socket, opened or not, the
\* next connect() is eventually made, however many failures came before.
C11_RetryForever ==
  /\ [](socks[ws] = "CLOSED" => Len(timers) = 1)
  /\ [](socks[ws] # "CLOSED" => Len(timers) = 0)
  /\ \A s \in 1..(MaxSess - 1) : (socks[s] = "CLOSED") ~> (socks[s + 1] # "NONE")

\* Five connects in a row have failed and the sixth attempt is under way.
C11_Witness ==
  /\ \A s \in 1..5 : socks[s] = "CLOSED" /\ ~Opened(s)
  /\ socks[6] = "CONNECTING"
  /\ ws = 6

C13_CorrelationById ==
  \A k \in Mail :
    fwd[k].pc = "replied" =>
      /\ \/ fwd[k].resp = Fallback
         \/ \E i \in 1..Len(hist[k]) : hist[k][i] = Did("out", fwd[k].resp)
      /\ \A j \in Mail \ {k} : fwd[k].resp # AgentReply(j)

\* The worker has completed only the newer request B; A's forwarder reached
\* its deadline with B's reply lying in the outbox and returned the fallback.
C13_Witness ==
  /\ ev = [op |-> "deadline", typ |-> ""]
  /\ fwd[1].pc = "replied" /\ fwd[1].resp = Fallback
  /\ "out" \notin Ops(hist[1])
  /\ fwd[2].pc = "polling"
  /\ outbox[2] = [st |-> "full", reply |-> AgentReply(2)]

\* --------------------------------------------------------------- C14
\* The place of a file operation in the order the claim gives.
Rank(op) ==
  CASE op = "in"    -> 1
    [] op = "read"  -> 2
    [] op = "out"   -> 3
    [] op = "del"   -> 4
    [] op = "fread" -> 5
    [] op = "fdel"  -> 6
    [] op = "reply" -> 7
    [] OTHER        -> 0

\* C14: for every id, the forwarder's inbox write, the worker's read, the
\* worker's outbox write, the worker's inbox delete, the forwarder's outbox
\* read, its delete and its reply with that content occur in this order only.
C14_StageOrder ==
  \A k \in Mail :
    \A i, j \in 1..Len(hist[k]) :
      (i < j /\ Rank(hist[k][i].op) > 0 /\ Rank(hist[k][j].op) > 0) =>
        Rank(hist[k][i].op) < Rank(hist[k][j].op)

\* --------------------------------------------------------------- C15
\* C15: a forwarder that stops polling while outbox/<id>.json does not exist
\* replies with the text 'still thinking on that one. try again in a
\* moment.' and leaves every inbox entry as it is; once written, an inbox
\* entry is changed by the worker's unlink only.
C15_ForwarderTimeout ==
  [][
      \A k \in Mail :
        /\ (fwd[k].pc = "polling" /\ fwd'[k].pc = "replied" /\ outbox[k].st = "absent") =>
              /\ fwd'[k].resp.text = "still thinking on that one. try again in a moment."
              /\ inbox' = inbox
              /\ ev'.op = "deadline"
        /\ (inbox[k].st = "full" /\ inbox'[k] # inbox[k]) =>
              (ev'.op = "unlink" /\ wk.cur = k)
  ]_vars

\* A forwarder gave up, and the worker found the entry afterwards and
\* answered it.
C15_Witness ==
  \E k \in Mail :
    /\ fwd[k].resp = Fallback
    /\ Len(hist[k]) >= 4
    /\ hist[k][1].op = "in"
    /\ hist[k][2].op = "fallback"
    /\ hist[k][3].op = "read"
    /\ hist[k][4].op = "out"

\* --------------------------------------------------------------- C16
\* C16: every outbox entry the worker has written is eventually read and
\* deleted by the forwarder of its id, so that none stays for ever.
C16_OutboxConsumed ==
  \A k \in Mail :
    (outbox[k].st = "full") ~> (outbox[k].st = "absent" /\ "fdel" \in Ops(hist[k]))

\* --------------------------------------------------------------- C17
\* C17: when a pass of processInbox ends, every entry that was complete in
\* the inbox when the pass started has an outbox entry written under its id
\* and is gone from the inbox; and with passes running again and again every
\* complete inbox entry eventually is answered in the outbox under its id
\* and removed, whatever else arrives.
C17_NoStarvation ==
  /\ [][(wk.pc # "idle" /\ wk'.pc = "idle") =>
          \A k \in wk.snap :
            inbox'[k].st = "absent" /\ "out" \in Ops(hist'[k])]_vars
  /\ \A k \in Mail :
       (inbox[k].st = "full") ~> (inbox[k].st = "absent" /\ "out" \in Ops(hist[k]))

\* A pass that found both entries has done the newer one and is finishing
\* the older one.
C17_Witness ==
  /\ wk.pc = "unlink"
  /\ wk.snap = {1, 2}
  /\ wk.cur = 1
  /\ wk.files = {}
  /\ "del" \in Ops(hist[2])
  /\ "out" \in Ops(hist[1])

\* --------------------------------------------------------------- C18
\* C18: a ping or response frame is handed to ws.send() only in a step that
\* finds the current socket OPEN, and it goes to that socket; a heartbeat
\* tick or a local-call callback that finds it not OPEN sends nothing.
C18_GuardedSends ==
  [][
      /\ (Len(sent') > Len(sent) /\ sent'[Len(sent')].frame.type \in {"ping", "response"}) =>
            /\ socks[ws] = "OPEN"
            /\ sent'[Len(sent')].on = ws
      /\ (ev'.op \in {"ping", "end", "reqerror", "timeout"} /\ socks[ws] # "OPEN") =>
            (sent' = sent)
  ]_vars

\* A local call ended while the socket was closing: nothing was sent for it.
C18_Witness ==
  \E r \in Requests :
    /\ ev = [op |-> "end", typ |-> ""]
    /\ reqs[r].st = "done"
    /\ socks[ws] = "CLOSING"
    /\ ResponsesTo(r) = {}

\* --------------------------------------------------------------- C19
\* C19 as stated: reconnectDelay is changed by the close handler only.
C19_OnlyCloseWrites ==
  [][reconnectDelay' # reconnectDelay => ev'.op = "close"]_vars

\* C19 as amended: reconnectDelay is changed by the open handler, which sets
\* it to 1000, and by the close handler only; message, error, heartbeat and
\* local-call callbacks leave it unchanged.
C19_OnlyOpenAndCloseWrite ==
  [][reconnectDelay' # reconnectDelay =>
       \/ ev'.op = "close"
       \/ ev'.op = "open" /\ reconnectDelay' = 1000]_vars

\* A socket opened after a failed attempt: the open handler reset the delay.
C19_Witness ==
  /\ ev = [op |-> "open", typ |-> ""]
  /\ reconnectDelay = 1000
  /\ \E s \in Sessions : socks[s] = "CLOSED" /\ ~Opened(s) /\ ws = s + 1

\* --------------------------------------------------------------- C20
\* C20: for request r1, when the local server answers 200 with the body
\* {"reply":"hello"} and headers content-type, content-length, etag and
\* set-cookie, the one response frame sent for r1 is exactly {type response,
\* id r1, status 200, headers {content-type: application/json}, body
\* {"reply":"hello"}}.
C20_EndToEndFrame ==
  \A i \in 1..Len(sent) :
    (sent[i].rq = 1 /\ sent[i].res.status = 200) =>
      /\ sent[i].frame =
           [type |-> "response", id |-> "r1", status |-> 200,
            headers |-> { <<"content-type", "application/json">> },
            body |-> "{\"reply\":\"hello\"}"]
      /\ ResponsesTo(1) = {i}

\* After auth on the first session, r1 was answered with the local 200.
C20_Witness ==
  /\ Len(sent) = 2
  /\ sent[1].frame = [type |-> "auth", api_key |-> "k1"]
  /\ sent[2].on = 1 /\ sent[2].rq = 1
  /\ sent[2].frame.status = 200

\* --------------------------------------------------------------- C25
\* C25: a response frame is sent only with the id of a request frame that
\* was received before, and every response frame in the log carries the id
\* of a received request.
C25_NoFabricatedId ==
  /\ [](\A i \in 1..Len(sent) :
          IsResponse(i) =>
            \E r \in Requests : reqs[r].st # "none" /\ sent[i].frame.id = reqs[r].id)
  /\ [][(Len(sent') > Len(sent) /\ sent'[Len(sent')].frame.type = "response") =>
          \E r \in Requests :
            reqs[r].st # "none" /\ sent'[Len(sent')].frame.id = reqs[r].id]_vars

\* The synthesized 504 went out under the id of the request that timed out.
C25_Witness ==
  /\ reqs[1].id = "r1"
  /\ \E i \in 1..Len(sent) :
       /\ sent[i].frame.type = "response"
       /\ sent[i].frame.status = 504
       /\ sent[i].frame.id = "r1"

\* --------------------------------------------------------------- C27
\* C27: when every socket that has closed had opened before, every
\* reconnect was scheduled after 1000 ms and reconnectDelay is 1000 or, from
\* a close to the next open, 2000; the close of an opened socket always
\* schedules the reconnect after 1000 ms; and the next connect() follows.
C27_AuthFailureLoop ==
  /\ []((\A s \in Sessions : socks[s] = "CLOSED" => Opened(s)) =>
          /\ reconnectDelay \in {1000, 2000}
          /\ \A i \in 1..Len(timers) : timers[i] = 1000)
  /\ [][\A s \in Sessions :
          (socks[s] = "CLOSING" /\ socks'[s] = "CLOSED" /\ Opened(s)) =>
            (timers' = Append(timers, 1000) /\ reconnectDelay' = 2000)]_vars
  /\ \A s \in 1..(MaxSess - 1) :
       (socks[s] = "CLOSED" /\ Opened(s)) ~> (socks[s + 1] # "NONE")

\* Two sessions in a row opened and were closed; the third connect, like
\* the second, came after 1000 ms.
C27_Witness ==
  /\ Opened(1) /\ socks[1] = "CLOSED"
  /\ Opened(2) /\ socks[2] = "CLOSED"
  /\ socks[3] = "CONNECTING"
  /\ reconnectDelay = 2000
  /\ \A i \in 1..Len(sent) : IsAuth(i)

\* --------------------------------------------------------------- C28
\* C28: while a local call is outstanding, no inbound frame, open, connect,
\* heartbeat, socket error or close changes it; it ends only by its own end,
\* error or timeout callback, and is destroyed only by the timeout after 25 s
\* of silence; a call that completes while no session is open sends nothing.
C28_NoCancellation ==
  [][
      \A r \in Requests :
        /\ (InFlight(r) /\ ev'.op \in {"message", "open", "connect", "ping",
                                        "error", "closing", "close"}) =>
              (reqs'[r] = reqs[r])
        /\ (InFlight(r) /\ ~InFlight(r)') =>
              (ev'.op \in {"end", "reqerror", "timeout"})
        /\ (reqs[r].st # "destroyed" /\ reqs'[r].st = "destroyed") =>
              (ev'.op = "timeout" /\ reqs[r].idle >= 25000)
        /\ (InFlight(r) /\ ~InFlight(r)' /\ \A s \in Sessions : socks[s] # "OPEN") =>
              (sent' = sent)
  ]_vars

\* The session of a request closed, the local call ran on and ended, and
\* its result was dropped.
C28_Witness ==
  /\ ev = [op |-> "end", typ |-> ""]
  /\ reqs[1].st = "done"
  /\ socks[reqs[1].sess] = "CLOSED"
  /\ \A s \in Sessions : socks[s] # "OPEN"
  /\ ResponsesTo(1) = {}

\* --------------------------------------------------------------- C21
\* C21: on an open session a request frame is accepted, and its local call
\* issued in the same step, while another call is outstanding; a heartbeat
\* tick can fire and sends its ping while calls are outstanding; and every
\* response carries the id of the request whose call produced it, in
\* whatever order the calls complete.
C21_ConcurrentRequests ==
  /\ []((socks[1] = "OPEN" /\ NumReqs < MaxReq /\ \E r \in Requests : InFlight(r)) =>
          ENABLED OnMessage(1, "request"))
  /\ []((socks[1] = "OPEN" /\ ws = 1 /\ npings < MaxPing /\ ~PendingHangup
          /\ \E r \in Requests : InFlight(r)) =>
          ENABLED Heartbeat(1))
  /\ [][
        /\ (ev' = [op |-> "message", typ |-> "request"]
              /\ \E r \in Requests : InFlight(r)) =>
              /\ reqs'[NumReqs + 1] = [st |-> "waiting", id |-> RequestId(NumReqs + 1),
                                       sess |-> 1, age |-> 0, idle |-> 0]
              /\ \A r \in Requests : r # NumReqs + 1 => reqs'[r] = reqs[r]
        /\ (ev'.op = "ping" /\ socks[ws] = "OPEN" /\ \E r \in Requests : InFlight(r)) =>
              (SendsOne /\ NewEntry.frame = [type |-> "ping"] /\ reqs' = reqs)
     ]_vars
  /\ [](\A i \in 1..Len(sent) :
          IsResponse(i) => sent[i].frame.id = RequestId(sent[i].rq))

\* On one session a ping went out, then r2, which arrived after r1, was
\* answered with the local 200, and only then r1.
C21_Witness ==
  \E i, j, k \in 1..Len(sent) :
    /\ i < j /\ j < k
    /\ IsPing(i)
    /\ IsResponse(j) /\ sent[j].frame.id = "r2" /\ sent[j].frame.status = 200
    /\ IsResponse(k) /\ sent[k].frame.id = "r1"
    /\ \A n \in 1..Len(sent) : sent[n].on = 1

InWindow(ip, n) == { j \in 1..Len(acc[ip]) : n - acc[ip][j] < Window }

\* C22: in every template, for each caller ip no more than 30 requests pass
\* the limiter within any 60000 ms; a request that arrives when 30 requests
\* of its ip passed less than 60000 ms ago gets 429 {"error":"rate limited"}
\* whatever its body, with no LLM call and no inbox entry, and a request that
\* arrives when fewer did is not refused.
C22_RateLimit ==
  /\ [](\A ip \in IPs : \A i \in 1..Len(acc[ip]) :
          Cardinality({ j \in 1..i : acc[ip][i] - acc[ip][j] < Window }) <= 30)
  /\ [][
        \A ip \in IPs :
          (ev' = [op |-> "chat", typ |-> ip]) =>
            /\ Cardinality(InWindow(ip, now)) >= 30 =>
                  /\ http'.res = [status |-> 429, ctype |-> "application/json",
                                  body |-> "{\"error\":\"rate limited\"}", ends |-> 1]
                  /\ ~http'.llm /\ ~http'.inboxed
                  /\ acc' = acc
            /\ Cardinality(InWindow(ip, now)) < 30 =>
                  /\ http'.res.status # 429
                  /\ acc' = [acc EXCEPT ![ip] = Append(@, now)]
     ]_vars

\* Caller a used up its 30 requests at time 0 and again at 60000, where a
\* further request without a message was refused with 429; caller b was
\* served in between.
C22_Witness ==
  /\ now = 60000
  /\ Len(acc["a"]) = 60
  /\ acc["b"] = <<30000>>
  /\ http.ip = "a" /\ http.message = Undefined
  /\ http.res.status = 429

C30_Validation ==
  (tpl \in {"generic", "mailbox"} /\ http.path = "chat" /\ http.res.status # 429) =>
    /\ http.message \in {Undefined, Num("7"), Str("")} =>
          /\ http.res.status = 400
          /\ http.res.body = "{\"error\":\"missing or invalid message field\"}"
          /\ ~http.llm /\ ~http.inboxed
    /\ http.message = Str("x*5001") =>
          /\ http.res.status = 400
          /\ http.res.body = "{\"error\":\"message too long\"}"
          /\ ~http.llm /\ ~http.inboxed
    /\ http.message \in {Str("hi"), Str("x*5000")} =>
          /\ http.res.status = 200
          /\ http.llm # http.inboxed

\* The mailbox server turned a message of 5001 characters away.
C30_Witness ==
  /\ tpl = "mailbox"
  /\ http.message = Str("x*5001")
  /\ http.res.status = 400
  /\ http.res.body = "{\"error\":\"message too long\"}"
  /\ ~http.inboxed

\* --------------------------------------------------------------- C24
\* C24: a valid chat request that reached the mailbox server's handleChat is
\* answered exactly once and no later than one poll interval (500 ms) after
\* its deadline of 25 s, whether the worker never writes, writes after the
\* reply or has written only part of the entry when it is read; and a
\* handleChat call that waits is answered eventually.
C24_ForwarderTerminates ==
  /\ [](/\ chat.replies <= 1
        /\ chat.pc = "replied" =>
              /\ chat.replies = 1
              /\ chat.at <= chat.deadline + 500
        /\ chat.pc = "waiting" =>
              /\ chat.replies = 0
              /\ clk <= chat.deadline + 500)
  /\ (chat.pc = "waiting") ~> (chat.pc = "replied")

\* The worker wrote its entry only after the forwarder had given up at its
\* deadline and sent the fallback.
C24_Witness ==
  /\ chat.pc = "replied" /\ chat.replies = 1
  /\ chat.at = chat.deadline
  /\ chat.body = FallbackBody
  /\ box.st = "full"

\* --------------------------------------------------------------- C29
\* C29: when the worker never completes the request, the tunnel client relays
\* the forwarder's fallback reply and never a 504 of its own: the forwarder's
\* deadline expires, and its reply arrives, before the tunnel client's
\* timeout of the local call fires.
C29_FallbackBeforeTimeout ==
  ~box.written =>
    \A i \in 1..Len(sent) :
      sent[i].frame.type = "response" => sent[i].frame.status # 504

\* --------------------------------------------------------------- C31
\* C31: a backend call that has failed has rejected the promise handleChat
\* awaits, so that no request stays unanswered, and the response handleChat
\* ends after a failure has status 200 and carries the template's fixed
\* fallback text.
C31_BackendFailureAnswered ==
  \A c \in Calls :
    /\ creq[c] = "closed" => prom[c].st = "rejected"
    /\ (job[c] = "answered" /\ prom[c].st = "rejected") =>
          wrote[c] = << [status |-> 200, ctype |-> "application/json",
                         body |-> IF tpl = "generic"
                                    THEN "{\"reply\":\"something went wrong, try again\"}"
                                    ELSE "{\"response\":\"brain glitch. try again.\"}",
                         ends |-> 1] >>

\* --------------------------------------------------------------- C32
FirstCall(c) == prom[c].calls[1]
LastCall(p) == p.calls[Len(p.calls)]

C33_NoAuthGate ==
  /\ [][
        /\ ev' = [op |-> "message", typ |-> "request"] =>
              /\ reqs'[NumReqs + 1] = [st |-> "waiting", id |-> RequestId(NumReqs + 1),
                                       sess |-> 1, age |-> 0, idle |-> 0]
              /\ sent' = sent
        /\ ev' = [op |-> "message", typ |-> "auth_ok"] =>
              /\ UNCHANGED <<socks, ws, pingInterval, intervals, reconnectDelay,
                             timers, reqs, sent, npings>>
        /\ ev'.op = "open" =>
              /\ pingInterval' = 1
              /\ 1 \in intervals'
     ]_vars
  /\ []((1 \in intervals /\ ~PendingHangup /\ npings < MaxPing) =>
          ENABLED Heartbeat(1))
  /\ []((socks[1] = "OPEN" /\ NumReqs < MaxReq) =>
          ENABLED RelayFrame(1, "request"))
  /\ [](\A i \in 1..Len(sent) :
          (sent[i].frame.type = "response" /\ sent[i].res # NoRes) =>
            /\ sent[i].frame.id = RequestId(sent[i].rq)
            /\ sent[i].frame.status = sent[i].res.status
            /\ sent[i].frame.body = sent[i].res.body)

\* No 'auth_ok' has been sent on the socket, and the client has sent a ping
\* and relayed the local server's 200 for request r1.
C33_Witness ==
  /\ authed = {}
  /\ \E i \in 1..Len(sent) : sent[i].frame = [type |-> "ping"]
  /\ \E i \in 1..Len(sent) :
       /\ sent[i].frame.type = "response"
       /\ sent[i].frame.id = "r1"
       /\ sent[i].frame.status = 200

\* --------------------------------------------------------------- C34
Live == { s \in Sessions : socks[s] \in {"CONNECTING", "OPEN", "CLOSING"} }

\* C34: at any time at most one socket is connecting, open or closing, at
\* most one reconnect timer is pending, and then no socket is live, and at
\* most one heartbeat interval is active, that of the live socket; a close
\* event adds exactly one reconnect timer; and when an open handler creates
\* its heartbeat interval no earlier one is still active.
C34_SingleSession ==
  /\ [](/\ Cardinality(Live) <= 1
        /\ Len(timers) <= 1
        /\ Len(timers) = 1 => Live = {}
        /\ Cardinality(intervals) <= 1
        /\ intervals \subseteq Live)
  /\ [][
        /\ ev'.op = "close" =>
              /\ Len(timers') = Len(timers) + 1
              /\ intervals' = {}
        /\ ev'.op = "open" =>
              /\ intervals = {}
              /\ Cardinality(intervals') = 1
        /\ ev'.op = "connect" =>
              /\ Len(timers') = Len(timers) - 1
              /\ Cardinality(Live') = 1
     ]_vars

\* The first session has closed and its heartbeat interval is gone; the
\* second one is open with an interval of its own and no timer is pending.
C34_Witness ==
  /\ socks[1] = "CLOSED"
  /\ socks[2] = "OPEN"
  /\ intervals = {2}
  /\ pingInterval = 2
  /\ timers = <<>>

\* --------------------------------------------------------------- C35
HowOften(h, op) == Cardinality({ i \in 1..Len(h) : h[i].op = op })

\* C35: when the command fails for an entry the worker has parsed, the catch
\* block files 'brain glitched. try again.' under the entry's id and the
\* entry is deleted next; no entry is read successfully, answered or deleted
\* more than once; and after an entry has failed the pass goes on with the
\* entries of its listing that remain.
C35_WorkerErrorPath ==
  /\ [][
        /\ (wk.pc = "catch" /\ wk.id # 0 /\ wk' # wk) =>
              /\ wk'.pc = "write"
              /\ wk'.id = wk.id
              /\ wk'.reply = [text |-> "brain glitched. try again.", of |-> 0]
        /\ (wk.pc = "write" /\ wk' # wk) =>
              /\ outbox'[wk.id].reply = wk.reply
              /\ \A j \in Mail : j # wk.id => outbox'[j] = outbox[j]
        /\ (wk.pc = "unlink" /\ wk' # wk) =>
              /\ inbox'[wk.cur].st = "absent"
              /\ wk'.files = wk.files
              /\ wk.files # {} => wk'.pc = "next"
     ]_vars
  /\ [](\A k \in Mail :
          /\ HowOften(hist[k], "read") <= 1
          /\ HowOften(hist[k], "out") <= 1
          /\ HowOften(hist[k], "del") <= 1)

\* The command failed for entry 1, which was answered with the glitch text
\* and deleted, and the same pass has gone on to run the command for entry 2.
C35_Witness ==
  /\ hist[1] = << [op |-> "in", reply |-> NoReply], [op |-> "read", reply |-> NoReply],
                  [op |-> "out", reply |-> Glitch], [op |-> "del", reply |-> NoReply] >>
  /\ outbox[1] = [st |-> "full", reply |-> Glitch]
  /\ wk.pc = "exec" /\ wk.cur = 2

\* --------------------------------------------------------------- C36
\* C36: when the worker could not parse an inbox entry it leaves the entry
\* alone in that pass: it goes on to the next entry or ends the pass, writes
\* no outbox entry for it and does not delete it.
C36_UnreadableEntryLeft ==
  [][
     (wk.pc = "catch" /\ wk.id = 0 /\ wk' # wk) =>
       /\ wk'.pc \in {"next", "idle"}
       /\ outbox' = outbox
       /\ inbox' = inbox
  ]_vars

\* --------------------------------------------------------------- C37
\* C37: a forwarder whose turn of the loop finds outbox/<id>.json for its id
\* with content that does not parse replies in that turn with the timeout
\* fallback text and leaves the outbox entry in place; and a forwarder that
\* has replied never reads or deletes anything afterwards.
C37_UnreadableOutbox ==
  [][
     \A k \in Mail :
       /\ (fwd[k].pc = "polling" /\ outbox[k].st = "partial"
             /\ ev'.op = "poll" /\ fwd'[k] # fwd[k]) =>
             /\ fwd'[k].pc = "replied"
             /\ fwd'[k].resp.text = "still thinking on that one. try again in a moment."
             /\ outbox' = outbox
             /\ hist'[k] = Append(hist[k], [op |-> "fallback", reply |-> fwd'[k].resp])
       /\ fwd[k].pc = "replied" =>
             /\ fwd'[k] = fwd[k]
             /\ HowOften(hist'[k], "fread") = HowOften(hist[k], "fread")
             /\ HowOften(hist'[k], "fdel") = HowOften(hist[k], "fdel")
  ]_vars

\* The forwarder of request 1 has just met the worker's entry half-written:
\* it has replied with the fallback and the entry is still there.
C37_Witness ==
  /\ ev = [op |-> "poll", typ |-> "break"]
  /\ fwd[1].pc = "replied"
  /\ fwd[1].resp = Fallback
  /\ outbox[1] = [st |-> "partial", reply |-> AgentReply(1)]
  /\ hist[1][Len(hist[1])] = [op |-> "fallback", reply |-> Fallback]
\* --------------------------------------------------------------- C38
Younger(q, n) == SelectSeq(q, LAMBDA t : n - t < 60000)

\* C38: a chat request of ip is refused exactly when 30 of the times recorded
\* for ip are younger than 60000 ms; a refused request records nothing, an
\* accepted one records its time, also when it is then answered with 400;
\* either way the times older than that are dropped for ip and the records
\* of every other ip stay as they are.
C38_Bookkeeping ==
  [][
     \A ip \in IPs :
       (ev' = [op |-> "chat", typ |-> ip]) =>
         /\ (http'.res.status = 429) <=> (Len(Younger(hits[ip], now)) >= 30)
         /\ http'.res.status = 429 => hits'[ip] = Younger(hits[ip], now)
         /\ http'.res.status # 429 => hits'[ip] = Append(Younger(hits[ip], now), now)
         /\ http'.res.status = 400 => hits'[ip][Len(hits'[ip])] = now
         /\ \A other \in IPs : other # ip => hits'[other] = hits[other]
  ]_vars

\* Caller a filled its quota at time 0; 60000 ms later those times are
\* dropped and a request of a, one without a usable message, was accepted
\* and recorded before it got its 400, while b's record is untouched.
C38_Witness ==
  /\ now = 60000
  /\ Len(acc["a"]) = 31
  /\ hits["a"] = <<60000>>
  /\ hits["b"] = <<0>>
  /\ http.ip = "a" /\ http.res.status = 400

====
